---- MODULE Spec2Model ----
(***************************************************************************)
(* Model of the GDSII in-memory library cache of wasm-glue:                *)
(*   include/mem-file.h          the byte cursor (mem_file_t)              *)
(*   src/wasm-element-cache.c    library / structure / element cache       *)
(* The caller's buffer is a sequence of bytes; offsets are 0-based as in   *)
(* the C code, so the byte at offset p is buf[p + 1].                      *)
(***************************************************************************)
EXTENDS Integers, Sequences, FiniteSets, TLC

\* ------------------------------------------------------------------------
\* GDSII record types (src/wasm-element-cache.c:22-56), decimal values
\* ------------------------------------------------------------------------
HEADER == 2
BGNLIB == 258
LIBNAME == 518
UNITS == 773
ENDLIB == 1024
BGNSTR == 1282
STRNAME == 1542
ENDSTR == 1792
BOUNDARY == 2048
PATH == 2304
SREF == 2560
AREF == 2816
TEXT == 3072
LAYER == 3330
DATATYPE == 3586
WIDTH == 3843
XY == 4099
ENDEL == 4352
SNAME == 4614
COLROW == 4866
NODE == 5376
ELFLAGS == 9729
PLEX == 12035
BOX == 11520
PROPATTR == 11010
PROPVALUE == 11270
MAX_STRUCTURE_NAME_LEN == 256

NULL == "NULL"

\* wasm-bridge.c:32
INVALID_HANDLE == 0

\* ------------------------------------------------------------------------
\* mem-file.h : the cursor.  A mem_file_t is modelled by the fields the
\* functions read or write; data/size are the buffer itself.
\* ------------------------------------------------------------------------
mem_fopen(buf) ==
    [position |-> 0, eof_flag |-> 0, error_flag |-> 0, is_closed |-> 0]

Min(a, b) == IF a < b THEN a ELSE b

\* a plausible slip: the cursor advances by the bytes asked for, not by the
\* bytes available
mem_fread_advanceTotal(buf, file, size, count) ==
    IF size = 0 \/ count = 0 \/ file.is_closed = 1
    THEN [file |-> file, ret |-> 0, bytes |-> << >>]
    ELSE IF Len(buf) - file.position = 0
    THEN [file |-> [file EXCEPT !.eof_flag = 1], ret |-> 0, bytes |-> << >>]
    ELSE [file  |-> [file EXCEPT !.position = @ + size * count,
                                 !.eof_flag = IF Len(buf) - file.position < size * count
                                              THEN 1 ELSE @],
          ret   |-> Min(size * count, Len(buf) - file.position) \div size,
          bytes |-> SubSeq(buf, file.position + 1,
                           file.position + Min(size * count, Len(buf) - file.position))]

\* mem_fread(ptr, size, count, file): result is the new cursor, the number
\* of elements delivered and the bytes copied to ptr.
mem_fread(buf, file, size, count) ==
    IF size = 0 \/ count = 0 \/ file.is_closed = 1
    THEN [file |-> file, ret |-> 0, bytes |-> << >>]
    ELSE LET total_bytes == size * count
             available == Len(buf) - file.position
         IN  IF available = 0
             THEN [file |-> [file EXCEPT !.eof_flag = 1], ret |-> 0, bytes |-> << >>]
             ELSE LET bytes_to_read == Min(total_bytes, available)
                  IN  [file  |-> [file EXCEPT !.position = @ + bytes_to_read,
                                              !.eof_flag = IF bytes_to_read < total_bytes
                                                           THEN 1 ELSE @],
                       ret   |-> bytes_to_read \div size,
                       bytes |-> SubSeq(buf, file.position + 1,
                                        file.position + bytes_to_read)]

\* mem_fseek(file, offset, SEEK_SET); the callers of the cache ignore the
\* return value, which is kept in ret.
mem_fseek(buf, file, offset) ==
    IF file.is_closed = 1 THEN [file |-> file, ret |-> -1]
    ELSE IF offset < 0 \/ offset > Len(buf)
         THEN [file |-> [file EXCEPT !.error_flag = 1], ret |-> -1]
         ELSE [file |-> [file EXCEPT !.position = offset, !.eof_flag = 0], ret |-> 0]

\* "new_position" of mem_fseek for the three origins (177-189)
SeekTarget(buf, file, offset, whence) ==
    CASE whence = "SEEK_SET" -> offset
      [] whence = "SEEK_CUR" -> file.position + offset
      [] whence = "SEEK_END" -> Len(buf) + offset

\* a plausible slip: the end of the buffer itself is refused
mem_fseek_whence_exclusive(buf, file, offset, whence) ==
    IF file.is_closed = 1 THEN [file |-> file, ret |-> -1]
    ELSE IF whence \notin {"SEEK_SET", "SEEK_CUR", "SEEK_END"}
    THEN [file |-> file, ret |-> -1]
    ELSE IF SeekTarget(buf, file, offset, whence) < 0
            \/ SeekTarget(buf, file, offset, whence) >= Len(buf)
    THEN [file |-> [file EXCEPT !.error_flag = 1], ret |-> -1]
    ELSE [file |-> [file EXCEPT !.position = SeekTarget(buf, file, offset, whence),
                                !.eof_flag = 0],
          ret |-> 0]

\* mem_fseek(file, offset, whence) for any origin; mem_fseek above is its
\* SEEK_SET case, the only one the cache uses
mem_fseek_whence(buf, file, offset, whence) ==
    IF file.is_closed = 1 THEN [file |-> file, ret |-> -1]
    ELSE IF whence \notin {"SEEK_SET", "SEEK_CUR", "SEEK_END"}
    THEN [file |-> file, ret |-> -1]
    ELSE IF SeekTarget(buf, file, offset, whence) < 0
            \/ SeekTarget(buf, file, offset, whence) > Len(buf)
    THEN [file |-> [file EXCEPT !.error_flag = 1], ret |-> -1]
    ELSE [file |-> [file EXCEPT !.position = SeekTarget(buf, file, offset, whence),
                                !.eof_flag = 0],
          ret |-> 0]

\* mem_fclose(file): the handle is only marked closed
mem_fclose(file) == [file EXCEPT !.is_closed = 1]

\* a plausible slip: a read that delivered anything counts as a success
Be16Read_anyBytes(r) ==
    IF r.ret = 0 THEN [file |-> r.file, ok |-> 0, value |-> 0]
    ELSE [file |-> r.file, ok |-> 1, value |-> (r.bytes \o <<0>>)[1] * 256 + (r.bytes \o <<0>>)[2]]

\* mem_fread_be16 after its mem_fread r of two bytes (296-302)
Be16Read(r) ==
    IF r.ret # 2 THEN [file |-> r.file, ok |-> 0, value |-> 0]
    ELSE [file |-> r.file, ok |-> 1, value |-> r.bytes[1] * 256 + r.bytes[2]]   \* 301

mem_fread_be16(buf, file) ==
    IF file.is_closed = 1 THEN [file |-> file, ok |-> 0, value |-> 0]
    ELSE Be16Read(mem_fread(buf, file, 1, 2))

\* mem_fread_be32 after its mem_fread r of four bytes (317-326).  The four
\* bytes are assembled big-endian into a uint32_t and then cast to int32_t
\* by the callers (mem-file.h:322-325, wasm-element-cache.c:521): the
\* two's-complement value, computed without leaving 32 bits.
Be32Read(r) ==
    IF r.ret # 4 THEN [file |-> r.file, ok |-> 0, value |-> 0]
    ELSE [file |-> r.file, ok |-> 1,
          value |-> (IF r.bytes[1] >= 128 THEN r.bytes[1] - 256 ELSE r.bytes[1])
                        * 16777216
                      + r.bytes[2] * 65536 + r.bytes[3] * 256 + r.bytes[4]]

mem_fread_be32(buf, file) ==
    IF file.is_closed = 1 THEN [file |-> file, ok |-> 0, value |-> 0]
    ELSE Be32Read(mem_fread(buf, file, 1, 4))

\* excess64_to_ieee754 (convert_float_gcc.h): an Excess-64 real is sign bit,
\* 7-bit exponent biased by 64, 56-bit mantissa.  The decoded double is kept
\* as that triple; the value is mantissa/2^56 * 16^(exp-64), negated if neg.
excess64_to_ieee754(bytes) ==
    [neg  |-> bytes[1] >= 128,
     exp  |-> bytes[1] % 128,
     mant |-> SubSeq(bytes, 2, 8)]

\* the double 0.0 left by memset
DoubleZero == [neg |-> FALSE, exp |-> 0, mant |-> <<0, 0, 0, 0, 0, 0, 0>>]

\* mem_fread_be64 after its mem_fread r of eight bytes (341-349)
Be64Read(r) ==
    IF r.ret # 8 THEN [file |-> r.file, ok |-> 0, value |-> DoubleZero]
    ELSE [file |-> r.file, ok |-> 1, value |-> excess64_to_ieee754(r.bytes)]

mem_fread_be64(buf, file) ==
    IF file.is_closed = 1 THEN [file |-> file, ok |-> 0, value |-> DoubleZero]
    ELSE Be64Read(mem_fread(buf, file, 1, 8))

\* a plausible slip: the total length is reported, not the payload length
HeaderTypeRead_totalLength(l, t) ==
    IF t.ok = 0
    THEN [file |-> t.file, ok |-> 0, record_type |-> 0, record_length |-> 0]
    ELSE [file |-> t.file, ok |-> 1, record_type |-> t.value,
          record_length |-> l.value]

\* mem_fread_gdsii_header after both 16-bit reads: l the total length, t the
\* record type.  record_length is a uint16_t, so a total length below 4
\* wraps to 65532..65535.
HeaderTypeRead(l, t) ==
    IF t.ok = 0
    THEN [file |-> t.file, ok |-> 0, record_type |-> 0, record_length |-> 0]
    ELSE [file |-> t.file, ok |-> 1, record_type |-> t.value,
          record_length |-> (l.value - 4) % 65536]

\* mem_fread_gdsii_header after the read l of the total length
HeaderLengthRead(buf, l) ==
    IF l.ok = 0
    THEN [file |-> l.file, ok |-> 0, record_type |-> 0, record_length |-> 0]
    ELSE HeaderTypeRead(l, mem_fread_be16(buf, l.file))

mem_fread_gdsii_header(buf, file) ==
    IF file.is_closed = 1
    THEN [file |-> file, ok |-> 0, record_type |-> 0, record_length |-> 0]
    ELSE HeaderLengthRead(buf, mem_fread_be16(buf, file))

\* ------------------------------------------------------------------------
\* wasm-element-cache.c : library cache
\* ------------------------------------------------------------------------

\* the cache after malloc + memset(0) with raw_data/data_size set (109-117)
EmptyCache(buf) ==
    [name |-> << >>, version |-> 0,
     user_units_per_db_unit |-> DoubleZero, meters_per_db_unit |-> DoubleZero,
     structure_count |-> 0, structure_capacity |-> 0,
     structures_alloc |-> FALSE, structures |-> << >>,
     data_size |-> Len(buf)]

\* 174-181 after the first read a: the second real is read only if the
\* first arrived, and each real is stored only if its own read succeeded
UnitsFirstRead(buf, u, a) ==
    LET b == mem_fread_be64(buf, a.file) IN
    IF a.ok = 0 THEN [file |-> a.file, units |-> u]
    ELSE [file |-> b.file, units |-> <<a.value, IF b.ok = 0 THEN u[2] ELSE b.value>>]

\* the UNITS search (166-188); u = <<user units, meters>> found so far, h the
\* header read at pos
RECURSIVE UnitsScan(_, _, _, _)
UnitsRecord(buf, pos, u, h) ==
    IF h.ok = 0 THEN [file |-> h.file, units |-> u]
    ELSE IF h.record_type = UNITS /\ h.record_length = 16
    THEN UnitsFirstRead(buf, u, mem_fread_be64(buf, h.file))
    ELSE IF h.record_type = ENDLIB THEN [file |-> h.file, units |-> u]
    ELSE UnitsScan(buf, mem_fseek(buf, h.file, pos + 4 + h.record_length).file,
                   pos + 4 + h.record_length, u)

UnitsScan(buf, file, pos, u) ==
    IF ~(pos + 4 <= Len(buf)) THEN [file |-> file, units |-> u]
    ELSE UnitsRecord(buf, pos, u, mem_fread_gdsii_header(buf, file))

\* a plausible slip: the whole payload is copied, whatever its length
NameLen_uncapped(record_length) == record_length

\* size of the name copied out of a LIBNAME / STRNAME payload (155, 306)
NameLen(record_length) == Min(record_length, MAX_STRUCTURE_NAME_LEN - 1)

\* every failure path of wasm_create_library_cache frees the cache and
\* returns NULL
CreateFailed(file) == [ret |-> NULL, cache |-> EmptyCache(<< >>), file |-> file]

\* 190-193: us is the outcome of the UNITS search, n the name read
CreateReturn(buf, n, us) ==
    [ret   |-> "cache",
     cache |-> [EmptyCache(buf) EXCEPT !.name = n.bytes,
                                       !.user_units_per_db_unit = us.units[1],
                                       !.meters_per_db_unit = us.units[2]],
     file  |-> mem_fseek(buf, us.file, 0).file]

\* 158-188: n is the mem_fread of the library name, pos the offset after
\* the LIBNAME record
CreateNameRead(buf, pos, name_len, n) ==
    IF n.ret # name_len THEN CreateFailed(n.file)
    ELSE CreateReturn(buf, n,
             UnitsScan(buf, mem_fseek(buf, n.file, pos).file, pos,
                       <<DoubleZero, DoubleZero>>))

\* 149-158: h is the third header, read at pos
CreateLibnameRead(buf, pos, h) ==
    IF h.ok = 0 \/ h.record_type # LIBNAME THEN CreateFailed(h.file)
    ELSE CreateNameRead(buf, pos + 4 + h.record_length, NameLen(h.record_length),
                        mem_fread(buf, h.file, 1, NameLen(h.record_length)))

\* 140-149: h is the second header, read at pos
CreateBgnlibRead(buf, pos, h) ==
    IF h.ok = 0 \/ h.record_type # BGNLIB THEN CreateFailed(h.file)
    ELSE CreateLibnameRead(buf, pos + 4 + h.record_length,
             mem_fread_gdsii_header(buf,
                 mem_fseek(buf, h.file, pos + 4 + h.record_length).file))

\* 131-140: h is the first header, read at offset 0
CreateHeaderRead(buf, h) ==
    IF h.ok = 0 \/ h.record_type # HEADER THEN CreateFailed(h.file)
    ELSE CreateBgnlibRead(buf, 4 + h.record_length,
             mem_fread_gdsii_header(buf,
                 mem_fseek(buf, h.file, 4 + h.record_length).file))

\* wasm_create_library_cache(data, size).  data_null says the caller passed
\* a NULL pointer.  ret = NULL means no cache is handed out.
wasm_create_library_cache(buf, data_null) ==
    IF data_null \/ Len(buf) = 0 THEN CreateFailed(mem_fopen(buf))
    ELSE CreateHeaderRead(buf, mem_fread_gdsii_header(buf, mem_fopen(buf)))

\* ------------------------------------------------------------------------
\* wasm_parse_library_structures
\* ------------------------------------------------------------------------

\* a plausible slip: the entries are not cleared and read as already parsed
ZeroStructure_flagged ==
    [name |-> << >>, element_count |-> 0, element_capacity |-> 0,
     elements_alloc |-> FALSE, elements |-> << >>,
     file_offset |-> 0, is_fully_parsed |-> 1]

\* one wasm_structure_cache_t after the memset(0) of line 280
ZeroStructure ==
    [name |-> << >>, element_count |-> 0, element_capacity |-> 0,
     elements_alloc |-> FALSE, elements |-> << >>,
     file_offset |-> 0, is_fully_parsed |-> 0]

\* the cursor at the record after the one of header h at pos: every record
\* loop ends on "pos += 4 + record_length; mem_fseek(file, pos, SEEK_SET)"
\* (266-267, 320-321, 416-417, 616-617)
NextRecord(buf, h, pos) == mem_fseek(buf, h.file, pos + 4 + h.record_length).file

\* first pass (256-267): count the BGNSTR records.  s holds the loop's
\* variables (the cursor of mem_file, pos, structure_count) at the loop test,
\* h is the header that the loop body reads at s.pos.
RECURSIVE CountStructuresRecord(_, _, _)
CountStructuresRecord(buf, s, h) ==
    CASE ~(s.pos + 4 <= Len(buf)) -> [file |-> s.file, count |-> s.structure_count]
      [] s.pos + 4 <= Len(buf) /\ h.ok = 0 ->
           [file |-> h.file, count |-> s.structure_count]
      [] OTHER ->
           CountStructuresRecord(buf,
               [file |-> NextRecord(buf, h, s.pos),
                pos |-> s.pos + 4 + h.record_length,
                structure_count |-> IF h.record_type = BGNSTR
                                    THEN s.structure_count + 1
                                    ELSE s.structure_count],
               mem_fread_gdsii_header(buf, NextRecord(buf, h, s.pos)))

CountStructures(buf, file, pos, structure_count) ==
    CountStructuresRecord(buf,
        [file |-> file, pos |-> pos, structure_count |-> structure_count],
        mem_fread_gdsii_header(buf, file))

\* second pass (287-322).  structs holds the entries below current_struct;
\* the entry at current_struct itself may have been written (file_offset,
\* name bytes) without being committed, and is never read by any function.
\* h is the header that the loop body reads at pos from file.
RECURSIVE ScanRecord(_, _, _, _, _, _)

\* 309-315: n is the mem_fread of the name of the structure whose BGNSTR is
\* at pos, pos2 the offset after its STRNAME record
ScanNameRead(buf, pos, pos2, structs, structure_count, name_len, n) ==
    ScanRecord(buf, mem_fseek(buf, n.file, pos2).file, pos2,
        IF n.ret = name_len                                       \* 308-311
        THEN Append(structs, [ZeroStructure EXCEPT !.file_offset = pos,
                                                   !.name = n.bytes])
        ELSE structs,
        structure_count,
        mem_fread_gdsii_header(buf, mem_fseek(buf, n.file, pos2).file))

\* 303-315: nh is the header read at pos1, right after the BGNSTR at pos
ScanNextRead(buf, pos, pos1, structs, structure_count, nh) ==
    IF nh.ok = 1 /\ nh.record_type = STRNAME
    THEN ScanNameRead(buf, pos, pos1 + 4 + nh.record_length, structs, structure_count,
                      NameLen(nh.record_length),
                      mem_fread(buf, nh.file, 1, NameLen(nh.record_length)))
    ELSE \* the peeked header stays consumed; pos is not moved
         ScanRecord(buf, nh.file, pos1, structs, structure_count,
                    mem_fread_gdsii_header(buf, nh.file))

\* 287-321
ScanRecord(buf, file, pos, structs, structure_count, h) ==
    CASE ~(pos + 4 <= Len(buf) /\ Len(structs) < structure_count) ->
           [file |-> file, structs |-> structs]
      [] pos + 4 <= Len(buf) /\ Len(structs) < structure_count /\ h.ok = 0 ->
           [file |-> h.file, structs |-> structs]
      [] pos + 4 <= Len(buf) /\ Len(structs) < structure_count /\ h.ok # 0
           /\ h.record_type = BGNSTR /\ pos + 4 + h.record_length + 4 <= Len(buf) ->
           ScanNextRead(buf, pos, pos + 4 + h.record_length, structs, structure_count,
                        mem_fread_gdsii_header(buf, NextRecord(buf, h, pos)))
      [] OTHER ->
           ScanRecord(buf, NextRecord(buf, h, pos), pos + 4 + h.record_length,
                      structs, structure_count,
                      mem_fread_gdsii_header(buf, NextRecord(buf, h, pos)))

ScanStructures(buf, file, pos, structs, structure_count) ==
    ScanRecord(buf, file, pos, structs, structure_count,
               mem_fread_gdsii_header(buf, file))

\* 274-325: s is the outcome of the second pass over c.count entries
StructuresScanned(cache, c, s) ==
    [ret   |-> 0,
     cache |-> [cache EXCEPT !.structure_capacity = c.count + 16,
                             !.structures_alloc = TRUE,
                             !.structures = s.structs,
                             !.structure_count = Len(s.structs)],
     file  |-> s.file]

\* 269-287: c is the outcome of the first pass
StructuresCounted(buf, cache, c) ==
    IF c.count = 0 THEN [ret |-> 0, cache |-> cache, file |-> c.file]
    ELSE StructuresScanned(cache, c,
             ScanStructures(buf, mem_fseek(buf, c.file, 0).file, 0, << >>, c.count))

\* wasm_parse_library_structures(cache) for a non-NULL cache
wasm_parse_library_structures(buf, cache, file) ==
    IF cache.structures_alloc THEN [ret |-> 0, cache |-> cache, file |-> file]
    ELSE StructuresCounted(buf, cache,
             CountStructures(buf, mem_fseek(buf, file, 0).file, 0, 0))

\* ------------------------------------------------------------------------
\* wasm_parse_structure_elements
\* ------------------------------------------------------------------------

\* map_record_type_to_element_kind (62-73)
map_record_type_to_element_kind(record_type) ==
    CASE record_type = BOUNDARY -> "GDS_BOUNDARY"
      [] record_type = PATH     -> "GDS_PATH"
      [] record_type = TEXT     -> "GDS_TEXT"
      [] record_type = SREF     -> "GDS_SREF"
      [] record_type = AREF     -> "GDS_AREF"
      [] record_type = BOX      -> "GDS_BOX"
      [] record_type = NODE     -> "GDS_NODE"
      [] OTHER                  -> "GDS_BOUNDARY"

\* one wasm_cached_element_t after memset(0), with the fields that the
\* parser writes or the modelled accessors read; polygons = << >> is the
\* NULL pointer, strings are the bytes before the terminating NUL
ZeroElement ==
    [kind |-> "GDS_BOUNDARY", layer |-> 0, dtype |-> 0, elflags |-> 0, plex |-> 0,
     polygon_count |-> 0, polygons |-> << >>,
     text_data |-> [text |-> << >>, x |-> 0, y |-> 0],
     reference_data |-> [structure_name |-> << >>, x |-> 0, y |-> 0,
                         nrow |-> 0, ncol |-> 0,
                         corners |-> <<0, 0, 0, 0, 0, 0>>],
     property_count |-> 0,
     bounds |-> <<0, 0, 0, 0>>]

\* a plausible slip: the minimum is compared the wrong way round
BoundsStep_minReversed(b, x, y) ==
    <<IF x > b[1] THEN x ELSE b[1], IF y > b[2] THEN y ELSE b[2],
      IF x > b[3] THEN x ELSE b[3], IF y > b[4] THEN y ELSE b[4]>>

\* the four comparisons that widen <<min_x, min_y, max_x, max_y>> by one
\* point (88-91, and again 590-599 for the ARef points)
BoundsStep(b, x, y) ==
    <<IF x < b[1] THEN x ELSE b[1], IF y < b[2] THEN y ELSE b[2],
      IF x > b[3] THEN x ELSE b[3], IF y > b[4] THEN y ELSE b[4]>>

\* the loop of calculate_bounds_from_vertices (84-92), from vertex i on
RECURSIVE BoundsFold(_, _, _)
BoundsFold(vertices, i, b) ==
    IF i > Len(vertices) \div 2 THEN b
    ELSE BoundsFold(vertices, i + 1,
                    BoundsStep(b, vertices[2 * i - 1], vertices[2 * i]))

\* calculate_bounds_from_vertices (75-98); vertices is the flattened array
calculate_bounds_from_vertices(vertices, vertex_count) ==
    IF vertex_count = 0 THEN <<0, 0, 0, 0>>
    ELSE BoundsFold(vertices, 2, <<vertices[1], vertices[2], vertices[1], vertices[2]>>)

\* a plausible slip: four bytes per vertex instead of eight
XYVertexCount_div4(prop_length) == prop_length \div 4

\* 504: int vertex_count = prop_length / 8
XYVertexCount(prop_length) == prop_length \div 8

\* "v_int" after "mem_fread_be32(file, &v_int)" (521-524): v_int is an
\* uninitialised local, so a failed read r leaves an indeterminate value,
\* here uninit.
CoordRead(r, uninit) ==
    [file |-> r.file, value |-> IF r.ok = 1 THEN r.value ELSE uninit]

\* The cursor after k successive mem_fread_be32 calls: each moves it by 4
\* bytes, or to the end of the buffer with eof_flag set when fewer than 4
\* are left, which is where one mem_fread of 4k bytes leaves it
\* (mem-file.h:123-146).
AfterCoords(buf, file, k) == mem_fread(buf, file, 1, 4 * k).file

\* the vertex loop 519-525: n coordinates (2 per vertex) appended to acc,
\* the k-th read from the cursor the k-1 reads before it left; uninit =
\* <<x, y>> are the indeterminate values of x_int and y_int
ReadCoords(buf, file, n, acc, uninit) ==
    [file   |-> AfterCoords(buf, file, n),
     values |-> acc \o [k \in 1..n |->
                          CoordRead(mem_fread_be32(buf, AfterCoords(buf, file, k - 1)),
                                    uninit[((Len(acc) + k - 1) % 2) + 1]).value]]

\* 509-529: the one polygon of a Boundary, Path, Box or Node, v the
\* coordinates read
StorePolygon(el, vertex_count, v) ==
    [file |-> v.file,
     el |-> [el EXCEPT
       !.polygon_count = 1,
       !.polygons = <<[vertices |-> v.values,
                       vertex_count |-> vertex_count,
                       capacity |-> vertex_count]>>,
       !.bounds = calculate_bounds_from_vertices(v.values, vertex_count)]]

\* 535-545: the position of a Text
StoreTextPosition(el, v) ==
    [file |-> v.file,
     el |-> [el EXCEPT
       !.text_data.x = v.values[1], !.text_data.y = v.values[2],
       !.bounds = <<v.values[1], v.values[2], v.values[1], v.values[2]>>]]

\* 548-558: the position of an SRef
StoreSRefPosition(el, v) ==
    [file |-> v.file,
     el |-> [el EXCEPT
       !.reference_data.x = v.values[1], !.reference_data.y = v.values[2],
       !.bounds = <<v.values[1], v.values[2], v.values[1], v.values[2]>>]]

\* 561-605: the three points of an ARef; the bounds are the min/max over
\* origin, column point and row point
StoreARefPoints(el, v) ==
    [file |-> v.file,
     el |-> [el EXCEPT
       !.reference_data.x = v.values[1], !.reference_data.y = v.values[2],
       !.reference_data.corners =
           <<v.values[3], v.values[4], v.values[5], v.values[6], @[5], @[6]>>,
       !.bounds = BoundsStep(
                      BoundsStep(<<v.values[1], v.values[2], v.values[1], v.values[2]>>,
                                 v.values[3], v.values[4]),
                      v.values[5], v.values[6])]]

\* What one call of the parser finds undetermined by its arguments is
\* passed as uninit: uninit[1] and uninit[2] are the indeterminate values
\* of x_int and y_int; uninit[3..5], where given, say whether the malloc of
\* the element array (426), of the polygon (511) and of the vertex array
\* (513) returns NULL.  Without them every malloc succeeds.
MallocFails(uninit, which) == Len(uninit) = 5 /\ uninit[which]

\* 509-531: polygon_count is set before the two mallocs; a polygon whose
\* vertex array could not be allocated is uninitialised memory but for its
\* vertices pointer
AllocatePolygon(buf, file, el, vertex_count, uninit) ==
    IF MallocFails(uninit, 4)
    THEN [file |-> file,
          el |-> [el EXCEPT !.polygon_count = 1, !.polygons = << >>]]
    ELSE IF MallocFails(uninit, 5)
    THEN [file |-> file,
          el |-> [el EXCEPT !.polygon_count = 1,
                            !.polygons = <<[vertices |-> << >>,
                                            vertex_count |-> uninit[1],
                                            capacity |-> uninit[2]]>>]]
    ELSE StorePolygon(el, vertex_count,
                      ReadCoords(buf, file, 2 * vertex_count, << >>, uninit))

\* case XY (500-608)
ParseXY(buf, file, el, prop_length, uninit) ==
    CASE prop_length >= 8
           /\ el.kind \in {"GDS_BOUNDARY", "GDS_PATH", "GDS_BOX", "GDS_NODE"}
           /\ XYVertexCount(prop_length) > 0 ->
           AllocatePolygon(buf, file, el, XYVertexCount(prop_length), uninit)
      [] prop_length >= 8 /\ el.kind = "GDS_TEXT" /\ XYVertexCount(prop_length) >= 1 ->
           StoreTextPosition(el, ReadCoords(buf, file, 2, << >>, uninit))
      [] prop_length >= 8 /\ el.kind = "GDS_SREF" /\ XYVertexCount(prop_length) >= 1 ->
           StoreSRefPosition(el, ReadCoords(buf, file, 2, << >>, uninit))
      [] prop_length >= 8 /\ el.kind = "GDS_AREF" /\ XYVertexCount(prop_length) >= 3 ->
           StoreARefPoints(el, ReadCoords(buf, file, 6, << >>, uninit))
      [] OTHER -> [file |-> file, el |-> el]

\* "mem_fread_be16(cache->mem_file, &element->field)" (480, 486, 492, 497):
\* the field is written only if the read r succeeded
StoreField(el, field, r) ==
    [file |-> r.file, el |-> IF r.ok = 1 THEN [el EXCEPT ![field] = r.value] ELSE el]

\* the switch on a sub-record type (477-614).  layer_set / dtype_set only
\* guard the defaults of 621-622, which store the 0 that memset left.
ParseSubRecord(buf, file, pos, el, prop_type, prop_length, uninit) ==
    CASE prop_type = LAYER ->
           IF prop_length = 2
           THEN StoreField(el, "layer", mem_fread_be16(buf, file))
           ELSE [file |-> file, el |-> el]
      [] prop_type = DATATYPE ->
           IF prop_length = 2
           THEN StoreField(el, "dtype", mem_fread_be16(buf, file))
           ELSE [file |-> file, el |-> el]
      [] prop_type = ELFLAGS ->
           IF prop_length = 2
           THEN StoreField(el, "elflags", mem_fread_be16(buf, file))
           ELSE [file |-> file, el |-> el]
      [] prop_type = PLEX ->
           IF prop_length = 4
           THEN StoreField(el, "plex", mem_fread_be32(buf, file))
           ELSE [file |-> file, el |-> el]
      [] prop_type = XY -> ParseXY(buf, file, el, prop_length, uninit)
      [] OTHER ->
           [file |-> mem_fseek(buf, file, pos + 4 + prop_length).file, el |-> el]

\* a plausible slip: a sub-record that the switch does not know ends the
\* element
EndsSubRecords_onUnknown(h) ==
    h.ok = 0 \/ h.record_type \notin {LAYER, DATATYPE, ELFLAGS, PLEX, XY}

\* the two breaks in front of the switch (469-475): a failed header read,
\* and ENDEL
EndsSubRecords(h) == h.ok = 0 \/ h.record_type = ENDEL

\* the sub-record loop of one element (468-618); h is the header that the
\* loop body reads at pos from file.  The result's pos is the offset of the
\* ENDEL header when the loop ended on one.
RECURSIVE SubRecordRead(_, _, _, _, _, _)

\* 616-617: r is the outcome of the switch, pos2 the offset of the next
\* sub-record
SubRecordParsed(buf, pos2, r, uninit) ==
    SubRecordRead(buf, mem_fseek(buf, r.file, pos2).file, pos2, r.el, uninit,
                  mem_fread_gdsii_header(buf, mem_fseek(buf, r.file, pos2).file))

\* 468-617
SubRecordRead(buf, file, pos, el, uninit, h) ==
    CASE ~(pos + 4 <= Len(buf)) -> [file |-> file, pos |-> pos, el |-> el]
      [] pos + 4 <= Len(buf) /\ EndsSubRecords(h) ->
           [file |-> h.file, pos |-> pos, el |-> el]
      [] OTHER ->
           SubRecordParsed(buf, pos + 4 + h.record_length,
               ParseSubRecord(buf, h.file, pos, el, h.record_type, h.record_length,
                              uninit),
               uninit)

\* line 451: the record opens an element of the structure being read
OpensElement(h, in_structure) ==
    h.record_type # BGNSTR /\ h.record_type # ENDSTR
        /\ in_structure = 1
        /\ h.record_type \in {BOUNDARY, PATH, TEXT, SREF, AREF, BOX, NODE}

\* first pass (398-418): count the element-opening records.  s holds the
\* loop's variables (the cursor of mem_file, pos, in_structure,
\* element_count) at the loop test, h is the header that the loop body reads
\* at s.pos.
RECURSIVE CountElementsRecord(_, _, _)
CountElementsRecord(buf, s, h) ==
    CASE ~(s.pos + 4 <= Len(buf)) -> [file |-> s.file, count |-> s.element_count]
      [] s.pos + 4 <= Len(buf)
           /\ (h.ok = 0 \/ (h.record_type = ENDSTR /\ s.in_structure = 1)) ->
           [file |-> h.file, count |-> s.element_count]
      [] OTHER ->
           CountElementsRecord(buf,
               [file |-> NextRecord(buf, h, s.pos),
                pos |-> s.pos + 4 + h.record_length,
                in_structure |-> IF h.record_type = BGNSTR THEN 1 ELSE s.in_structure,
                element_count |-> IF OpensElement(h, s.in_structure)
                                  THEN s.element_count + 1 ELSE s.element_count],
               mem_fread_gdsii_header(buf, NextRecord(buf, h, s.pos)))

CountElements(buf, file, pos, in_structure, element_count) ==
    CountElementsRecord(buf,
        [file |-> file, pos |-> pos, in_structure |-> in_structure,
         element_count |-> element_count],
        mem_fread_gdsii_header(buf, file))

\* second pass (440-629): decode the elements; elems holds the entries
\* below current_element, h is the header that the loop body reads at pos
\* from file
RECURSIVE DecodeRecord(_, _, _, _, _, _, _, _)

\* 620-628: body is the outcome of the sub-record loop of the element whose
\* opening record has payload length record_length
ElementDecoded(buf, in_structure, elems, element_count, uninit, record_length, body) ==
    DecodeRecord(buf, mem_fseek(buf, body.file, body.pos + 4 + record_length).file,
                 body.pos + 4 + record_length,
                 in_structure, Append(elems, body.el), element_count, uninit,
                 mem_fread_gdsii_header(buf,
                     mem_fseek(buf, body.file, body.pos + 4 + record_length).file))

\* 440-628
DecodeRecord(buf, file, pos, in_structure, elems, element_count, uninit, h) ==
    CASE ~(pos + 4 <= Len(buf) /\ Len(elems) < element_count) ->
           [file |-> file, elems |-> elems]
      [] pos + 4 <= Len(buf) /\ Len(elems) < element_count
           /\ (h.ok = 0 \/ (h.record_type = ENDSTR /\ in_structure = 1)) ->
           [file |-> h.file, elems |-> elems]
      [] pos + 4 <= Len(buf) /\ Len(elems) < element_count /\ h.ok # 0
           /\ OpensElement(h, in_structure) ->
           ElementDecoded(buf, in_structure, elems, element_count, uninit,
               h.record_length,
               SubRecordRead(buf, mem_fseek(buf, h.file, pos + 4).file, pos + 4,
                   [ZeroElement EXCEPT
                       !.kind = map_record_type_to_element_kind(h.record_type)],
                   uninit,
                   mem_fread_gdsii_header(buf, mem_fseek(buf, h.file, pos + 4).file)))
      [] OTHER ->
           DecodeRecord(buf, NextRecord(buf, h, pos), pos + 4 + h.record_length,
                        IF h.record_type = BGNSTR THEN 1 ELSE in_structure,
                        elems, element_count, uninit,
                        mem_fread_gdsii_header(buf, NextRecord(buf, h, pos)))

DecodeElements(buf, file, pos, in_structure, elems, element_count, uninit) ==
    DecodeRecord(buf, file, pos, in_structure, elems, element_count, uninit,
                 mem_fread_gdsii_header(buf, file))

\* a plausible slip: the early return of 385-387 is missing
AlreadyParsed_never(struct_cache) == FALSE

\* 385: if (struct_cache->is_fully_parsed) return 0;
AlreadyParsed(struct_cache) == struct_cache.is_fully_parsed # 0

\* 426-634: d is the outcome of the second pass over c.count entries
ElementsDecoded(cache, structure_index, c, d) ==
    [ret |-> 0,
     cache |-> [cache EXCEPT !.structures[structure_index + 1] =
                   [@ EXCEPT !.element_capacity = c.count,
                             !.elements_alloc = TRUE,
                             !.elements = d.elems,
                             !.element_count = Len(d.elems),
                             !.is_fully_parsed = 1]],
     file |-> d.file]

\* a plausible slip: the early return for a structure without elements
\* forgets to mark it parsed
ElementsCounted_emptyUnparsed(buf, cache, structure_index, uninit, c) ==
    IF c.count = 0
    THEN [ret |-> 0, cache |-> cache, file |-> c.file]
    ELSE ElementsDecoded(cache, structure_index, c,
             DecodeElements(buf,
                 mem_fseek(buf, c.file,
                           cache.structures[structure_index + 1].file_offset).file,
                 cache.structures[structure_index + 1].file_offset,
                 0, << >>, c.count, uninit))

\* 420-440: c is the outcome of the first pass
ElementsCounted(buf, cache, structure_index, uninit, c) ==
    IF c.count = 0
    THEN [ret |-> 0,
          cache |-> [cache EXCEPT !.structures[structure_index + 1].is_fully_parsed = 1],
          file |-> c.file]
    ELSE IF MallocFails(uninit, 3)
    THEN [ret |-> -1,
          cache |-> [cache EXCEPT
                        !.structures[structure_index + 1].element_capacity = c.count],
          file |-> c.file]
    ELSE ElementsDecoded(cache, structure_index, c,
             DecodeElements(buf,
                 mem_fseek(buf, c.file,
                           cache.structures[structure_index + 1].file_offset).file,
                 cache.structures[structure_index + 1].file_offset,
                 0, << >>, c.count, uninit))

\* wasm_parse_structure_elements(cache, structure_index) for a non-NULL
\* cache; uninit = the indeterminate values of x_int / y_int
wasm_parse_structure_elements(buf, cache, file, structure_index, uninit) ==
    IF structure_index < 0 \/ structure_index >= cache.structure_count
    THEN [ret |-> -1, cache |-> cache, file |-> file]
    ELSE IF AlreadyParsed(cache.structures[structure_index + 1])
    THEN [ret |-> 0, cache |-> cache, file |-> file]
    ELSE ElementsCounted(buf, cache, structure_index, uninit,
             CountElements(buf,
                 mem_fseek(buf, file,
                           cache.structures[structure_index + 1].file_offset).file,
                 cache.structures[structure_index + 1].file_offset, 0, 0))

\* wasm_parse_all_data (1196-1218), the loop from structure i on
RECURSIVE ParseAllFrom(_, _, _, _, _)

\* 1211-1213: r is the outcome of parsing structure i
ParseAllParsed(buf, i, uninit, r) ==
    IF r.ret # 0 THEN [ret |-> -1, cache |-> r.cache, file |-> r.file]
    ELSE ParseAllFrom(buf, r.cache, r.file, i + 1, uninit)

ParseAllFrom(buf, cache, file, i, uninit) ==
    IF ~(i < cache.structure_count) THEN [ret |-> 0, cache |-> cache, file |-> file]
    ELSE IF cache.structures[i + 1].is_fully_parsed = 0
    THEN ParseAllParsed(buf, i, uninit,
             wasm_parse_structure_elements(buf, cache, file, i, uninit))
    ELSE ParseAllFrom(buf, cache, file, i + 1, uninit)

\* 1202-1217: p is the outcome of the structure scan
ParseAllScanned(buf, uninit, p) ==
    IF p.ret # 0 THEN [ret |-> -1, cache |-> p.cache, file |-> p.file]
    ELSE ParseAllFrom(buf, p.cache, p.file, 0, uninit)

wasm_parse_all_data(buf, cache, file, uninit) ==
    ParseAllScanned(buf, uninit,
        IF ~cache.structures_alloc
        THEN wasm_parse_library_structures(buf, cache, file)
        ELSE [ret |-> 0, cache |-> cache, file |-> file])

\* ------------------------------------------------------------------------
\* element accessors (641-1128).  All share one shape: check the structure
\* index, parse the structure on first use, check the element index, return
\* a field; they differ in the field and in what they return on failure.
\* A returned value is one record for every C return type: val for an
\* integer, kind for an element_kind, null / at for a pointer and the array
\* it points to.
\* ------------------------------------------------------------------------
IntRet(n) == [val |-> n, kind |-> "", null |-> FALSE, at |-> << >>]

\* the value returned on an invalid index or a failed parse
FailureReturn(acc) ==
    CASE acc = "wasm_get_element_count"                -> IntRet(-1)   \* 643, 649
      [] acc = "wasm_get_element_type"                 -> IntRet(-1)   \* 658-669
      [] acc = "wasm_get_element_layer"                -> IntRet(-1)   \* 677-688
      [] acc = "wasm_get_element_polygon_count"        -> IntRet(-1)   \* 704-715
      [] acc = "wasm_get_element_polygon_vertex_count" -> IntRet(-1)   \* 724-740
      [] acc = "wasm_get_element_polygon_vertices"     -> [IntRet(0) EXCEPT !.null = TRUE]   \* 749-765
      [] acc = "wasm_get_element_elflags"              -> IntRet(0)    \* 777-788
      [] acc = "wasm_get_element_array_columns"        -> IntRet(1)    \* 994-1005

\* the field returned for a valid element (and polygon) index
FieldReturn(acc, el, polygon_index) ==
    CASE acc = "wasm_get_element_type"                 ->
             [IntRet(0) EXCEPT !.kind = el.kind]
      [] acc = "wasm_get_element_layer"                -> IntRet(el.layer)
      [] acc = "wasm_get_element_polygon_count"        -> IntRet(el.polygon_count)
      [] acc = "wasm_get_element_polygon_vertex_count" ->
             IntRet(el.polygons[polygon_index + 1].vertex_count)
      [] acc = "wasm_get_element_polygon_vertices"     ->
             [IntRet(0) EXCEPT !.at = el.polygons[polygon_index + 1].vertices]
      [] acc = "wasm_get_element_elflags"              -> IntRet(el.elflags)
      [] acc = "wasm_get_element_array_columns"        -> IntRet(el.reference_data.ncol)

\* the parse-on-first-use step shared by the accessors (647-651)
EnsureParsed(buf, cache, file, structure_index, uninit) ==
    IF cache.structures[structure_index + 1].is_fully_parsed = 0
    THEN wasm_parse_structure_elements(buf, cache, file, structure_index, uninit)
    ELSE [ret |-> 0, cache |-> cache, file |-> file]

\* the part of an accessor after the parse-on-first-use step p: the element
\* and polygon index checks and the field read
AccessorTail(acc, p, structure_index, element_index, polygon_index) ==
    LET struct_cache == p.cache.structures[structure_index + 1] IN
    IF p.ret # 0 THEN [ret |-> FailureReturn(acc), cache |-> p.cache, file |-> p.file]
    ELSE IF acc = "wasm_get_element_count"
    THEN [ret |-> IntRet(struct_cache.element_count), cache |-> p.cache, file |-> p.file]
    ELSE IF element_index < 0 \/ element_index >= struct_cache.element_count
    THEN [ret |-> FailureReturn(acc), cache |-> p.cache, file |-> p.file]
    ELSE IF acc \in {"wasm_get_element_polygon_vertex_count",
                     "wasm_get_element_polygon_vertices"}
            /\ (polygon_index < 0
                \/ polygon_index >= struct_cache.elements[element_index + 1].polygon_count)
    THEN [ret |-> FailureReturn(acc), cache |-> p.cache, file |-> p.file]
    ELSE [ret |-> FieldReturn(acc, struct_cache.elements[element_index + 1],
                              polygon_index),
          cache |-> p.cache, file |-> p.file]

\* the structure index check that opens every accessor and the parse
StructureIndexValid(cache, structure_index) ==
    structure_index >= 0 /\ structure_index < cache.structure_count

\* wasm_get_element_property_count (332-341): no parse on first use
wasm_get_element_property_count(ptr, cache, structure_index, element_index) ==
    IF ptr = NULL \/ ~StructureIndexValid(cache, structure_index) THEN -1
    ELSE IF element_index < 0
            \/ element_index >= cache.structures[structure_index + 1].element_count
    THEN -1
    ELSE cache.structures[structure_index + 1].elements[element_index + 1].property_count

\* wasm_get_element_data_type (697-700): reads none of its arguments
wasm_get_element_data_type(ptr, cache, structure_index, element_index) == 0

\* a char array read as a C string, as strcmp(cache->name, ...) reads it:
\* the bytes in front of the first NUL
CString(bytes) ==
    IF \E i \in 1..Len(bytes) : bytes[i] = 0
    THEN SubSeq(bytes, 1, (CHOOSE i \in 1..Len(bytes) :
                             bytes[i] = 0 /\ \A j \in 1..(i - 1) : bytes[j] # 0) - 1)
    ELSE bytes

\* ------------------------------------------------------------------------
\* Inputs: GDSII byte streams, built record by record the way the tests'
\* generators build them (tests/unit/test-library-cache.c:47-130).
\* ------------------------------------------------------------------------
MaxStructs == 3      \* structures in a generated library
MaxIndex == 2        \* largest element index a caller passes
MaxHandles == 3      \* slots of the handle table (MAX_HANDLES, 1000 in the source)
MaxObjects == 3      \* objects the heap can hold before malloc fails

U16(n) == <<n \div 256, n % 256>>

\* two's-complement big-endian encoding of a signed 32-bit integer
I32(v) == <<(v \div 16777216) % 256, (v \div 65536) % 256, (v \div 256) % 256, v % 256>>

\* a record whose declared total length is total_length
RecDeclared(total_length, type, payload) == U16(total_length) \o U16(type) \o payload

\* a record whose declared total length covers its payload
Rec(type, payload) == RecDeclared(Len(payload) + 4, type, payload)

RECURSIVE Coords(_)
Coords(points) ==
    IF points = << >> THEN << >>
    ELSE I32(Head(points)[1]) \o I32(Head(points)[2]) \o Coords(Tail(points))

Timestamps == <<7, 231, 7, 8, 15, 42, 7, 231, 7, 8, 15, 43>>
UnitsPayload == <<63, 26, 54, 226, 235, 28, 67, 43, 62, 17, 230, 162, 142, 251, 26, 36>>

Preamble ==
    Rec(HEADER, <<0, 3>>) \o Rec(BGNLIB, Timestamps) \o Rec(LIBNAME, <<76, 0>>)

\* An element description: the opening record type, LAYER and DATATYPE
\* values (-1: no such record), further sub-records as bytes, and the XY
\* payload as points followed by stray bytes (xy = FALSE: no XY record).
Elem(type, layer, dtype, sub, xy, points, stray) ==
    [type |-> type, layer |-> layer, dtype |-> dtype, sub |-> sub,
     xy |-> xy, points |-> points, stray |-> stray]

EncodeElement(d) ==
    Rec(d.type, << >>)
      \o (IF d.layer >= 0 THEN Rec(LAYER, U16(d.layer)) ELSE << >>)
      \o (IF d.dtype >= 0 THEN Rec(DATATYPE, U16(d.dtype)) ELSE << >>)
      \o d.sub
      \o (IF d.xy THEN Rec(XY, Coords(d.points) \o d.stray) ELSE << >>)
      \o Rec(ENDEL, << >>)

RECURSIVE EncodeElements(_)
EncodeElements(ds) ==
    IF ds = << >> THEN << >> ELSE EncodeElement(Head(ds)) \o EncodeElements(Tail(ds))

EncodeStructure(t) ==
    Rec(BGNSTR, Timestamps) \o Rec(STRNAME, t.name) \o EncodeElements(t.elements)
      \o Rec(ENDSTR, << >>)

\* The structure templates.  A and C are well formed; B holds a Boundary
\* whose XY payload is 12 bytes and a Path whose XY payload is empty; E has
\* no elements.
Struct(id) ==
    CASE id = "A" ->
           [name |-> <<65, 0>>,
            elements |-> <<
              Elem(BOUNDARY, 1, 2, Rec(ELFLAGS, U16(1)) \o Rec(PLEX, I32(5)), TRUE,
                   << <<300000, 400000>>, <<-5, 70000>>,
                      <<2147483647, -2147483647 - 1>>, <<0, 0>> >>, << >>),
              Elem(TEXT, 3, -1, << >>, TRUE, << <<10, -20>> >>, << >>),
              Elem(NODE, 4, -1, << >>, TRUE, << <<-1, -65537>> >>, << >>) >>]
      [] id = "B" ->
           [name |-> <<66, 0>>,
            elements |-> <<
              Elem(BOUNDARY, 5, 0, << >>, TRUE, << <<1, 2>> >>, <<0, 0, 0, 9>>),
              Elem(PATH, 6, 0, << >>, TRUE, << >>, << >>) >>]
      [] id = "C" ->
           [name |-> <<67, 0>>,
            elements |-> <<
              Elem(AREF, -1, -1, Rec(SNAME, <<65, 0>>) \o Rec(COLROW, U16(3) \o U16(2)), TRUE,
                   << <<0, 0>>, <<30, 0>>, <<0, 20>> >>, << >>),
              Elem(SREF, -1, -1, Rec(SNAME, <<65, 0>>), TRUE, << <<7, -7>> >>, << >>) >>]
      [] id = "E" ->
           [name |-> <<69, 0>>, elements |-> << >>]
      [] id = "S" ->   \* the remaining polygon kinds, well formed
           [name |-> <<83, 0>>,
            elements |-> <<
              Elem(PATH, 8, 1, Rec(WIDTH, I32(50)), TRUE,
                   << <<0, 0>>, <<100000, -100000>> >>, << >>),
              Elem(BOX, 7, 0, << >>, TRUE, << <<-3, 6>>, <<5, -4>> >>, << >>) >>]

Templates == <<Struct("A"), Struct("B"), Struct("C"), Struct("E")>>

RECURSIVE EncodeStructures(_)
EncodeStructures(sel) ==
    IF sel = << >> THEN << >>
    ELSE EncodeStructure(Templates[Head(sel)]) \o EncodeStructures(Tail(sel))

\* a well-delimited library made of the selected templates
EncodeLibrary(sel) ==
    Preamble \o Rec(UNITS, UnitsPayload) \o EncodeStructures(sel) \o Rec(ENDLIB, << >>)

\* the LIBNAME payloads of the minimal libraries: the name of the unit test
\* (test-library-cache.c:62-65), a name padded with NULs, a name longer than
\* the 256-byte name array
MinimalName(id) ==
    CASE id = "minimal_test" -> <<84, 69, 83, 84>>
      [] id = "minimal_padded" -> <<88, 89, 0, 90, 0, 0>>
      [] id = "minimal_long" -> [i \in 1..300 |-> 78]

MinimalIds == {"minimal_test", "minimal_padded", "minimal_long"}

\* Malformed and unusual streams, each named by what is wrong with it.
ExtraBuffer(id) ==
    CASE id = "empty" -> << >>
      [] id = "tiny" -> <<0, 1, 2>>
      [] id = "no_header" ->
           Rec(BGNLIB, Timestamps) \o Rec(LIBNAME, <<76, 0>>) \o Rec(UNITS, UnitsPayload)
             \o Rec(ENDLIB, << >>)
      [] id = "wrong_order" ->
           Rec(HEADER, <<0, 3>>) \o Rec(LIBNAME, <<76, 0>>) \o Rec(BGNLIB, Timestamps)
             \o Rec(UNITS, UnitsPayload) \o Rec(ENDLIB, << >>)
      [] id = "header_overrun" ->
           \* HEADER declares 100 bytes in a 14-byte buffer
           RecDeclared(100, HEADER, << >>) \o Rec(BGNLIB, << >>) \o Rec(LIBNAME, <<88, 0>>)
      [] id = "libname_truncated" ->
           \* LIBNAME declares 8 payload bytes, 2 are present
           Rec(HEADER, <<0, 3>>) \o Rec(BGNLIB, Timestamps)
             \o RecDeclared(12, LIBNAME, <<76, 73>>)
      [] id = "no_units" -> Preamble \o Rec(ENDLIB, << >>)
      [] id = "units_short" ->
           Preamble \o Rec(UNITS, SubSeq(UnitsPayload, 1, 8)) \o Rec(ENDLIB, << >>)
      [] id = "units_zero" ->
           Preamble \o Rec(UNITS, <<0, 0, 0, 0, 0, 0, 0, 0>> \o SubSeq(UnitsPayload, 9, 16))
             \o Rec(ENDLIB, << >>)
      [] id = "units_negative" ->
           Preamble \o Rec(UNITS, SubSeq(UnitsPayload, 1, 8) \o <<190>>
                                  \o SubSeq(UnitsPayload, 10, 16))
             \o Rec(ENDLIB, << >>)
      [] id = "units_after_bgnstr" ->
           Preamble \o EncodeStructure(Struct("E")) \o Rec(UNITS, UnitsPayload)
             \o Rec(ENDLIB, << >>)
      [] id = "bgnstr_no_strname" ->
           \* a BGNSTR followed by ENDSTR, then a well-formed structure
           Preamble \o Rec(UNITS, UnitsPayload) \o Rec(BGNSTR, Timestamps)
             \o Rec(ENDSTR, << >>) \o EncodeStructure(Struct("A")) \o Rec(ENDLIB, << >>)
      [] id = "xy_truncated" ->
           \* the XY record declares 16 payload bytes, 10 are present
           Preamble \o Rec(UNITS, UnitsPayload) \o Rec(BGNSTR, Timestamps)
             \o Rec(STRNAME, <<84, 0>>) \o Rec(BOUNDARY, << >>) \o Rec(LAYER, U16(9))
             \o RecDeclared(20, XY, I32(11) \o I32(12) \o <<0, 0>>)
      [] id = "after_endlib" ->
           EncodeLibrary(<<1>>) \o EncodeStructure(Struct("C"))
      [] id = "shapes" ->
           Preamble \o Rec(UNITS, UnitsPayload) \o EncodeStructure(Struct("S"))
             \o EncodeStructure(Struct("E")) \o Rec(ENDLIB, << >>)
      [] id \in MinimalIds ->
           \* HEADER, BGNLIB, LIBNAME, UNITS, ENDLIB (create_minimal_gdsii_data)
           Rec(HEADER, <<0, 3>>) \o Rec(BGNLIB, Timestamps)
             \o Rec(LIBNAME, MinimalName(id)) \o Rec(UNITS, UnitsPayload)
             \o Rec(ENDLIB, << >>)
      [] id = "unknown_subrecords" ->
           \* the Boundary of "properties" with three unknown records among
           \* its sub-records: one without payload, one of odd length whose
           \* payload looks like an XY header, one whose payload looks like
           \* an ENDEL record
           Preamble \o Rec(UNITS, UnitsPayload) \o Rec(BGNSTR, Timestamps)
             \o Rec(STRNAME, <<80, 0>>) \o Rec(BOUNDARY, << >>)
             \o Rec(32515, << >>) \o Rec(LAYER, U16(2)) \o Rec(DATATYPE, U16(7))
             \o Rec(32515, <<0, 36, 16, 3, 255>>)
             \o Rec(XY, Coords(<< <<0, 0>>, <<4, 0>>, <<4, 4>>, <<0, 0>> >>))
             \o Rec(32515, <<0, 4, 17, 0>>)
             \o Rec(PROPATTR, U16(1)) \o Rec(PROPVALUE, <<97, 98>>)
             \o Rec(PROPATTR, U16(2)) \o Rec(PROPVALUE, <<99, 0>>)
             \o Rec(ENDEL, << >>) \o Rec(ENDSTR, << >>) \o Rec(ENDLIB, << >>)
      [] id = "element_no_endel" ->
           \* structure X: a Boundary with LAYER 1 and no ENDEL before the
           \* ENDSTR; structure Y: a complete Boundary with LAYER 9,
           \* DATATYPE 5 and two XY points
           Preamble \o Rec(UNITS, UnitsPayload) \o Rec(BGNSTR, Timestamps)
             \o Rec(STRNAME, <<88, 0>>) \o Rec(BOUNDARY, << >>) \o Rec(LAYER, U16(1))
             \o Rec(ENDSTR, << >>) \o Rec(BGNSTR, Timestamps)
             \o Rec(STRNAME, <<89, 0>>) \o Rec(BOUNDARY, << >>) \o Rec(LAYER, U16(9))
             \o Rec(DATATYPE, U16(5)) \o Rec(XY, Coords(<< <<1, 2>>, <<3, 4>> >>))
             \o Rec(ENDEL, << >>) \o Rec(ENDSTR, << >>) \o Rec(ENDLIB, << >>)
      [] id = "bgnstr_no_strname_then_named" ->
           \* a BGNSTR followed by ENDSTR, then a structure whose BGNSTR
           \* payload ends in the bytes 00 06 06 06
           Preamble \o Rec(UNITS, UnitsPayload) \o Rec(BGNSTR, Timestamps)
             \o Rec(ENDSTR, << >>)
             \o Rec(BGNSTR, SubSeq(Timestamps, 1, 8) \o <<0, 6, 6, 6>>)
             \o Rec(STRNAME, <<65, 0>>) \o Rec(ENDSTR, << >>) \o Rec(ENDLIB, << >>)
      [] id = "properties" ->
           \* a Boundary that carries the properties (1, "ab") and (2, "c")
           Preamble \o Rec(UNITS, UnitsPayload) \o Rec(BGNSTR, Timestamps)
             \o Rec(STRNAME, <<80, 0>>) \o Rec(BOUNDARY, << >>) \o Rec(LAYER, U16(2))
             \o Rec(DATATYPE, U16(7))
             \o Rec(XY, Coords(<< <<0, 0>>, <<4, 0>>, <<4, 4>>, <<0, 0>> >>))
             \o Rec(PROPATTR, U16(1)) \o Rec(PROPVALUE, <<97, 98>>)
             \o Rec(PROPATTR, U16(2)) \o Rec(PROPVALUE, <<99, 0>>)
             \o Rec(ENDEL, << >>) \o Rec(ENDSTR, << >>) \o Rec(ENDLIB, << >>)
      [] id = "empty_first" ->
           \* a structure without elements in front of one with three
           Preamble \o Rec(UNITS, UnitsPayload) \o EncodeStructure(Struct("E"))
             \o EncodeStructure(Struct("A")) \o Rec(ENDLIB, << >>)

Inputs ==
    \* a library is made of the first n templates, n <= MaxStructs
    {[kind |-> "library", sel |-> [i \in 1..n |-> i], id |-> ""] :
        n \in 0..Min(MaxStructs, Len(Templates))}
      \cup {[kind |-> "extra", sel |-> << >>, id |-> id] :
              id \in {"empty", "tiny", "no_header", "wrong_order", "header_overrun",
               "libname_truncated", "no_units", "units_short", "units_zero", "units_negative",
               "units_after_bgnstr", "bgnstr_no_strname", "xy_truncated", "after_endlib",
               "shapes", "empty_first", "properties",
               "unknown_subrecords", "element_no_endel",
               "bgnstr_no_strname_then_named"} \cup MinimalIds}

BufferOf(in) == IF in.kind = "library" THEN EncodeLibrary(in.sel) ELSE ExtraBuffer(in.id)

\* the indeterminate values an uninitialised x_int / y_int may hold
Uninit == {<<0, 0>>, <<-559038737, 305419896>>}

\* uninit is read only by a parse of a structure that is not parsed yet
UninitFor(c, structure_indexes) ==
    IF \E i \in structure_indexes :
          i >= 0 /\ i < c.structure_count /\ c.structures[i + 1].is_fully_parsed = 0
    THEN Uninit ELSE {<<0, 0>>}

Accessors ==
    {"wasm_get_element_count", "wasm_get_element_type", "wasm_get_element_layer",
     "wasm_get_element_polygon_count",
     "wasm_get_element_polygon_vertices", "wasm_get_element_elflags",
     "wasm_get_element_array_columns"}

\* ------------------------------------------------------------------------
\* State
\* ------------------------------------------------------------------------
VARIABLES
    input,       \* which stream the caller supplied (never changes)
    raw_data,    \* the caller's buffer
    cache_ptr,   \* the caller's wasm_library_cache_t*: NULL or "cache"
    cache,       \* the wasm_library_cache_t it points to
    mem_file,    \* cache->mem_file
    last_call,   \* the last API call: function, arguments, return value
    loop,        \* the record-scanning loop being stepped through, if any
    bridge       \* the static variables of wasm-bridge.c and the objects it allocated

vars == <<input, raw_data, cache_ptr, cache, mem_file, last_call, loop, bridge>>

Call(op, args, ret) == [op |-> op, args |-> args, ret |-> ret]

\* The local variables of a record-scanning loop: which loop, whether it
\* is still running, the tracked offset pos, in_structure, the counter
\* (structure_count / current_struct / element_count / current_element), the
\* counter's limit in a second pass, and, inside the sub-record loop, the
\* payload length and the kind of the element whose body is being read.
NoLoop ==
    [name |-> "none", running |-> FALSE, pos |-> 0, in_structure |-> 0,
     current |-> 0, count |-> 0, record_length |-> 0, kind |-> "GDS_BOUNDARY"]

\* An address that malloc has not handed out or that was freed again.
NoObject ==
    [kind |-> "free", cache |-> EmptyCache(<< >>), file |-> mem_fopen(<< >>),
     data |-> << >>]

\* handles[], next_handle, handles_initialized and last_error as the loader
\* leaves them (40-42, 114), and an empty heap
NoBridge ==
    [handles |-> [h \in 0..(MaxHandles - 1) |-> [pointer |-> 0, type |-> 0, size |-> 0]],
     next_handle |-> 1,
     handles_initialized |-> 0,
     last_error |-> "",
     heap |-> [o \in 1..MaxObjects |-> NoObject]]

Init ==
    /\ input \in Inputs
    /\ raw_data = BufferOf(input)
    /\ cache_ptr = NULL
    /\ cache = EmptyCache(<< >>)
    /\ mem_file = mem_fopen(<< >>)
    /\ last_call = Call("none", << >>, IntRet(0))
    /\ loop = NoLoop
    /\ bridge = NoBridge

\* cache = wasm_create_library_cache(data, size); the argument data is
\* recorded as 0 for NULL and 1 for the caller's buffer
Create ==
    /\ cache_ptr = NULL
    /\ \E data_null \in BOOLEAN :
         \E r \in {wasm_create_library_cache(raw_data, data_null)} :
             /\ cache_ptr' = r.ret
             /\ cache' = r.cache
             /\ mem_file' = IF r.ret = NULL THEN mem_fopen(<< >>) ELSE r.file
             /\ last_call' = Call("wasm_create_library_cache",
                                  <<IF data_null THEN 0 ELSE 1, Len(raw_data)>>,
                                  [IntRet(0) EXCEPT !.null = (r.ret = NULL)])
    /\ UNCHANGED <<input, raw_data, loop, bridge>>

\* wasm_free_library_cache(cache); cache = NULL
Free ==
    /\ cache_ptr # NULL
    /\ cache_ptr' = NULL
    /\ cache' = EmptyCache(<< >>)
    /\ mem_file' = mem_fopen(<< >>)
    /\ last_call' = Call("wasm_free_library_cache", << >>, IntRet(0))
    /\ UNCHANGED <<input, raw_data, loop, bridge>>

\* wasm_parse_library_structures(cache)
ParseLibraryStructures ==
    /\ IF cache_ptr = NULL
       THEN /\ last_call' = Call("wasm_parse_library_structures", << >>, IntRet(0))  \* 245-247
            /\ UNCHANGED <<cache, mem_file>>
       ELSE \E r \in {wasm_parse_library_structures(raw_data, cache, mem_file)} :
                /\ cache' = r.cache
                /\ mem_file' = r.file
                /\ last_call' = Call("wasm_parse_library_structures", << >>, IntRet(r.ret))
    /\ UNCHANGED <<input, raw_data, cache_ptr, loop, bridge>>

\* wasm_parse_structure_elements(cache, structure_index)
ParseStructureElements ==
    /\ \E structure_index \in (-1..MaxStructs) :
         IF cache_ptr = NULL
         THEN /\ last_call' = Call("wasm_parse_structure_elements",
                                   <<structure_index>>, IntRet(-1))            \* 380-382
              /\ UNCHANGED <<cache, mem_file>>
         ELSE \E r \in {wasm_parse_structure_elements(raw_data, cache, mem_file,
                                                      structure_index, uninit) :
                            uninit \in UninitFor(cache, {structure_index})} :
                /\ cache' = r.cache
                /\ mem_file' = r.file
                /\ last_call' = Call("wasm_parse_structure_elements",
                                     <<structure_index>>, IntRet(r.ret))
    /\ UNCHANGED <<input, raw_data, cache_ptr, loop, bridge>>

\* wasm_parse_all_data(cache)
ParseAllData ==
    /\ IF cache_ptr = NULL
       THEN /\ last_call' = Call("wasm_parse_all_data", << >>, IntRet(-1))     \* 1197-1199
            /\ UNCHANGED <<cache, mem_file>>
       ELSE \E r \in {wasm_parse_all_data(raw_data, cache, mem_file, uninit) :
                          uninit \in (IF cache.structures_alloc
                                      THEN UninitFor(cache, 0..(cache.structure_count - 1))
                                      ELSE Uninit)} :
              /\ cache' = r.cache
              /\ mem_file' = r.file
              /\ last_call' = Call("wasm_parse_all_data", << >>, IntRet(r.ret))
    /\ UNCHANGED <<input, raw_data, cache_ptr, loop, bridge>>

\* one of the element accessors, acc(cache, structure_index, element_index
\* [, polygon_index]).  The parse-on-first-use step depends on the structure
\* index only, so it is written once for all accessors.
GetElement ==
    /\ \E structure_index \in (-1..MaxStructs) :
         LET valid == cache_ptr # NULL /\ StructureIndexValid(cache, structure_index)
         IN
         \E p \in (IF valid
                   THEN {EnsureParsed(raw_data, cache, mem_file, structure_index, uninit) :
                           uninit \in UninitFor(cache, {structure_index})}
                   ELSE {[ret |-> -1, cache |-> cache, file |-> mem_file]}) :
         \E acc \in Accessors :
         \E element_index \in IF acc = "wasm_get_element_count" THEN {0} ELSE (-1..MaxIndex) :
         \E polygon_index \in IF acc \in {"wasm_get_element_polygon_vertex_count",
                                            "wasm_get_element_polygon_vertices"}
                               THEN -1..1 ELSE {0} :
         \E r \in {IF valid
                  THEN AccessorTail(acc, p, structure_index, element_index,
                                    polygon_index)
                  ELSE [ret |-> FailureReturn(acc), cache |-> cache, file |-> mem_file]} :
               /\ cache' = r.cache
               /\ mem_file' = r.file
               /\ last_call' = Call(acc, <<structure_index, element_index, polygon_index>>,
                                    r.ret)
    /\ UNCHANGED <<input, raw_data, cache_ptr, loop, bridge>>

\* one of the accessors that return what the cache holds without parsing
GetElementDirect ==
    /\ \E structure_index \in -1..MaxStructs, element_index \in -1..MaxIndex :
          \/ last_call' = Call("wasm_get_element_property_count",
                               <<structure_index, element_index, 0>>,
                               IntRet(wasm_get_element_property_count(
                                         cache_ptr, cache, structure_index,
                                         element_index)))
          \/ last_call' = Call("wasm_get_element_data_type",
                               <<structure_index, element_index, 0>>,
                               IntRet(wasm_get_element_data_type(
                                         cache_ptr, cache, structure_index,
                                         element_index)))
    /\ UNCHANGED <<input, raw_data, cache_ptr, cache, mem_file, loop, bridge>>

Next ==
    \/ Create
    \/ Free
    \/ ParseLibraryStructures
    \/ ParseStructureElements
    \/ ParseAllData
    \/ GetElement
    \/ GetElementDirect

Spec == Init /\ [][Next]_vars

\* ------------------------------------------------------------------------
\* The byte cursor on its own (include/mem-file.h): a caller opens a buffer
\* and calls the mem_f* functions in any order.  raw_data is the buffer,
\* mem_file the handle; last_call.args starts with the position before the
\* call.
\* ------------------------------------------------------------------------
FileBuffer(id) ==
    CASE id = "libname_header" -> <<0, 12, 2, 6>>       \* test-memory-file.c:333-336
      [] id = "small" -> <<1, 2, 3>>                    \* test-memory-file.c:382
      [] id = "records" -> <<0, 6, 13, 2, 0, 7, 0, 3, 4, 0, 255>>

FileInit ==
    /\ input \in {[kind |-> "file", sel |-> << >>, id |-> id] :
                    id \in {"libname_header", "small", "records"}}
    /\ raw_data = FileBuffer(input.id)
    /\ cache_ptr = NULL
    /\ cache = EmptyCache(<< >>)
    /\ mem_file = mem_fopen(raw_data)
    /\ last_call = Call("mem_fopen", << >>, [ret |-> 0])
    /\ loop = NoLoop
    /\ bridge = NoBridge

\* n = mem_fread(ptr, size, count, file)
MemFread ==
    /\ \E size \in {0, 1, 2}, count \in {0, 1, 2, 4, 5} :
         \E r \in {mem_fread(raw_data, mem_file, size, count)} :
             /\ mem_file' = r.file
             /\ last_call' = Call("mem_fread", <<mem_file.position, size, count>>,
                                  [ret |-> r.ret, bytes |-> r.bytes])
    /\ UNCHANGED <<input, raw_data, cache_ptr, cache, loop, bridge>>

\* ok = mem_fread_be16(file, &value)
MemFreadBe16 ==
    /\ \E r \in {mem_fread_be16(raw_data, mem_file)} :
         /\ mem_file' = r.file
         /\ last_call' = Call("mem_fread_be16", <<mem_file.position>>,
                              [ret |-> r.ok, value |-> r.value])
    /\ UNCHANGED <<input, raw_data, cache_ptr, cache, loop, bridge>>

\* ok = mem_fread_be32(file, &value)
MemFreadBe32 ==
    /\ \E r \in {mem_fread_be32(raw_data, mem_file)} :
         /\ mem_file' = r.file
         /\ last_call' = Call("mem_fread_be32", <<mem_file.position>>,
                              [ret |-> r.ok, value |-> r.value])
    /\ UNCHANGED <<input, raw_data, cache_ptr, cache, loop, bridge>>

\* ok = mem_fread_gdsii_header(file, &record_type, &record_length)
MemFreadGdsiiHeader ==
    /\ \E r \in {mem_fread_gdsii_header(raw_data, mem_file)} :
         /\ mem_file' = r.file
         /\ last_call' = Call("mem_fread_gdsii_header", <<mem_file.position>>,
                              [ret |-> r.ok, record_type |-> r.record_type,
                               record_length |-> r.record_length])
    /\ UNCHANGED <<input, raw_data, cache_ptr, cache, loop, bridge>>

\* ret = mem_fseek(file, offset, whence)
MemFseek ==
    /\ \E offset \in (-Len(raw_data) - 1)..(Len(raw_data) + 1),
          whence \in {"SEEK_SET", "SEEK_CUR", "SEEK_END", "3"} :
         \E r \in {mem_fseek_whence(raw_data, mem_file, offset, whence)} :
             /\ mem_file' = r.file
             /\ last_call' = Call("mem_fseek", <<mem_file.position, offset, whence>>,
                                  [ret |-> r.ret])
    /\ UNCHANGED <<input, raw_data, cache_ptr, cache, loop, bridge>>

\* mem_fclose(file)
MemFclose ==
    /\ mem_file.is_closed = 0
    /\ mem_file' = mem_fclose(mem_file)
    /\ last_call' = Call("mem_fclose", <<mem_file.position>>, [ret |-> 0])
    /\ UNCHANGED <<input, raw_data, cache_ptr, cache, loop, bridge>>

FileNext ==
    \/ MemFread
    \/ MemFreadBe16
    \/ MemFreadBe32
    \/ MemFreadGdsiiHeader
    \/ MemFseek
    \/ MemFclose

FileSpec == FileInit /\ [][FileNext]_vars

\* ------------------------------------------------------------------------
\* The record-scanning loops of wasm-element-cache.c, one iteration per
\* step.  raw_data is the buffer, mem_file the cursor of cache->mem_file,
\* loop the local variables of the loop.  A step is the loop test followed
\* by the loop body; a loop that leaves through its test or a break stops
\* running.
\* ------------------------------------------------------------------------
LoopBuffer(id) ==
    CASE id = "short_after_libname" ->
           \* a record of declared total length 0 in front of UNITS
           Preamble \o RecDeclared(0, ENDSTR, << >>) \o Rec(UNITS, UnitsPayload)
             \o EncodeStructure(Struct("E")) \o Rec(ENDLIB, << >>)
      [] id = "short_bgnstr" ->
           \* a BGNSTR of declared total length 2
           Preamble \o Rec(UNITS, UnitsPayload) \o EncodeStructure(Struct("E"))
             \o RecDeclared(2, BGNSTR, Timestamps) \o Rec(STRNAME, <<65, 0>>)
             \o Rec(ENDSTR, << >>) \o Rec(ENDLIB, << >>)
      [] id = "short_element" ->
           \* an element-opening record of declared total length 1
           Preamble \o Rec(UNITS, UnitsPayload) \o Rec(BGNSTR, Timestamps)
             \o Rec(STRNAME, <<83, 0>>) \o Rec(NODE, << >>) \o Rec(LAYER, U16(4))
             \o Rec(ENDEL, << >>) \o RecDeclared(1, BOUNDARY, << >>)
             \o Rec(LAYER, U16(1)) \o Rec(ENDEL, << >>) \o Rec(ENDSTR, << >>)
             \o Rec(ENDLIB, << >>)
      [] id = "short_subrecord" ->
           \* a LAYER sub-record of declared total length 3
           Preamble \o Rec(UNITS, UnitsPayload) \o Rec(BGNSTR, Timestamps)
             \o Rec(STRNAME, <<83, 0>>) \o Rec(BOUNDARY, << >>)
             \o Rec(DATATYPE, U16(2)) \o RecDeclared(3, LAYER, U16(1))
             \o Rec(XY, Coords(<< <<1, 2>> >>)) \o Rec(ENDEL, << >>)
             \o Rec(ENDSTR, << >>) \o Rec(ENDLIB, << >>)
      [] id = "library" -> EncodeLibrary(<<1, 2, 3>>)
      [] OTHER -> ExtraBuffer(id)

\* the loop l left through its test or a break
Stopped(l) == [l EXCEPT !.running = FALSE]

\* a plausible slip: the four bytes of the header are not counted
Advance_payloadOnly(pos, record_length) == pos + record_length

\* "pos += 4 + record_length"
Advance(pos, record_length) == pos + 4 + record_length

\* the state in front of the UNITS search (126-164): the three preamble
\* records were accepted and pos is the offset after LIBNAME
UnitsSearchStart(buf) ==
    LET h0 == mem_fread_gdsii_header(buf, mem_fopen(buf))
        p1 == Advance(0, h0.record_length)
        h1 == mem_fread_gdsii_header(buf, mem_fseek(buf, h0.file, p1).file)
        p2 == Advance(p1, h1.record_length)
        h2 == mem_fread_gdsii_header(buf, mem_fseek(buf, h1.file, p2).file)
        p3 == Advance(p2, h2.record_length)
        n  == mem_fread(buf, h2.file, 1, NameLen(h2.record_length))
    IN  [ok   |-> /\ Len(buf) > 0
                  /\ h0.ok = 1 /\ h0.record_type = HEADER
                  /\ h1.ok = 1 /\ h1.record_type = BGNLIB
                  /\ h2.ok = 1 /\ h2.record_type = LIBNAME
                  /\ n.ret = NameLen(h2.record_length),
         pos  |-> p3,
         file |-> mem_fseek(buf, n.file, p3).file]

\* one iteration of the UNITS search (167-188); h is the header read
UnitsSearchIteration(buf, file, l, h) ==
    CASE ~(l.pos + 4 <= Len(buf)) -> [file |-> file, loop |-> Stopped(l)]
      [] l.pos + 4 <= Len(buf) /\ h.ok = 0 -> [file |-> h.file, loop |-> Stopped(l)]
      [] l.pos + 4 <= Len(buf) /\ h.ok = 1
           /\ h.record_type = UNITS /\ h.record_length = 16 ->
           [file |-> UnitsFirstRead(buf, <<DoubleZero, DoubleZero>>,
                                    mem_fread_be64(buf, h.file)).file,
            loop |-> Stopped(l)]
      [] l.pos + 4 <= Len(buf) /\ h.ok = 1 /\ h.record_type = ENDLIB ->
           [file |-> h.file, loop |-> Stopped(l)]
      [] OTHER ->
           [file |-> mem_fseek(buf, h.file, Advance(l.pos, h.record_length)).file,
            loop |-> [l EXCEPT !.pos = Advance(l.pos, h.record_length)]]

\* one iteration of the first pass of wasm_parse_library_structures (256-267)
CountStructuresIteration(buf, file, l, h) ==
    CASE ~(l.pos + 4 <= Len(buf)) -> [file |-> file, loop |-> Stopped(l)]
      [] l.pos + 4 <= Len(buf) /\ h.ok = 0 -> [file |-> h.file, loop |-> Stopped(l)]
      [] OTHER ->
           [file |-> mem_fseek(buf, h.file, Advance(l.pos, h.record_length)).file,
            loop |-> [l EXCEPT !.pos = Advance(l.pos, h.record_length),
                               !.current = IF h.record_type = BGNSTR
                                           THEN l.current + 1 ELSE l.current]]

\* 299-317: the record after a BGNSTR; pos1 is the offset after the BGNSTR,
\* nh the header read there, n the read of the name
ScanStructuresName(buf, l, pos1, nh, n) ==
    IF nh.ok = 1 /\ nh.record_type = STRNAME
    THEN [file |-> mem_fseek(buf, n.file, Advance(pos1, nh.record_length)).file,
          loop |-> [l EXCEPT !.pos = Advance(pos1, nh.record_length),
                             !.current = IF n.ret = NameLen(nh.record_length)
                                         THEN l.current + 1 ELSE l.current]]
    ELSE [file |-> nh.file, loop |-> [l EXCEPT !.pos = pos1]]

\* one iteration of the second pass of wasm_parse_library_structures
\* (287-322)
ScanStructuresIteration(buf, file, l, h) ==
    CASE ~(l.pos + 4 <= Len(buf) /\ l.current < l.count) ->
           [file |-> file, loop |-> Stopped(l)]
      [] l.pos + 4 <= Len(buf) /\ l.current < l.count /\ h.ok = 0 ->
           [file |-> h.file, loop |-> Stopped(l)]
      [] l.pos + 4 <= Len(buf) /\ l.current < l.count /\ h.ok = 1
           /\ h.record_type = BGNSTR
           /\ Advance(l.pos, h.record_length) + 4 <= Len(buf) ->
           ScanStructuresName(buf, l, Advance(l.pos, h.record_length),
               mem_fread_gdsii_header(buf,
                   mem_fseek(buf, h.file, Advance(l.pos, h.record_length)).file),
               mem_fread(buf,
                   mem_fread_gdsii_header(buf,
                       mem_fseek(buf, h.file, Advance(l.pos, h.record_length)).file).file,
                   1,
                   NameLen(mem_fread_gdsii_header(buf,
                       mem_fseek(buf, h.file,
                                 Advance(l.pos, h.record_length)).file).record_length)))
      [] OTHER ->
           [file |-> mem_fseek(buf, h.file, Advance(l.pos, h.record_length)).file,
            loop |-> [l EXCEPT !.pos = Advance(l.pos, h.record_length)]]

\* one iteration of the first pass of wasm_parse_structure_elements
\* (398-418)
CountElementsIteration(buf, file, l, h) ==
    CASE ~(l.pos + 4 <= Len(buf)) -> [file |-> file, loop |-> Stopped(l)]
      [] l.pos + 4 <= Len(buf)
           /\ (h.ok = 0 \/ (h.record_type = ENDSTR /\ l.in_structure = 1)) ->
           [file |-> h.file, loop |-> Stopped(l)]
      [] OTHER ->
           [file |-> mem_fseek(buf, h.file, Advance(l.pos, h.record_length)).file,
            loop |-> [l EXCEPT !.pos = Advance(l.pos, h.record_length),
                               !.in_structure = IF h.record_type = BGNSTR
                                                THEN 1 ELSE l.in_structure,
                               !.current = IF OpensElement(h, l.in_structure)
                                           THEN l.current + 1 ELSE l.current]]

\* one iteration of the second pass of wasm_parse_structure_elements
\* (440-629) up to the sub-record loop: an element-opening record moves pos
\* behind its header and enters the sub-record loop (460-468)
DecodeElementsIteration(buf, file, l, h) ==
    CASE ~(l.pos + 4 <= Len(buf) /\ l.current < l.count) ->
           [file |-> file, loop |-> Stopped(l)]
      [] l.pos + 4 <= Len(buf) /\ l.current < l.count
           /\ (h.ok = 0 \/ (h.record_type = ENDSTR /\ l.in_structure = 1)) ->
           [file |-> h.file, loop |-> Stopped(l)]
      [] l.pos + 4 <= Len(buf) /\ l.current < l.count /\ h.ok = 1
           /\ OpensElement(h, l.in_structure) ->
           [file |-> mem_fseek(buf, h.file, l.pos + 4).file,
            loop |-> [l EXCEPT !.name = "sub_records",
                               !.pos = l.pos + 4,
                               !.record_length = h.record_length,
                               !.kind = map_record_type_to_element_kind(h.record_type)]]
      [] OTHER ->
           [file |-> mem_fseek(buf, h.file, Advance(l.pos, h.record_length)).file,
            loop |-> [l EXCEPT !.pos = Advance(l.pos, h.record_length),
                               !.in_structure = IF h.record_type = BGNSTR
                                                THEN 1 ELSE l.in_structure]]

\* 620-628: the sub-record loop is left with the cursor file; the element
\* is counted and the second pass goes on behind it
ElementClosed(buf, file, l) ==
    [file |-> mem_fseek(buf, file, Advance(l.pos, l.record_length)).file,
     loop |-> [l EXCEPT !.name = "decode_elements",
                        !.pos = Advance(l.pos, l.record_length),
                        !.current = l.current + 1]]

\* one iteration of the sub-record loop (468-618)
SubRecordIteration(buf, file, l, h, uninit) ==
    CASE ~(l.pos + 4 <= Len(buf)) -> ElementClosed(buf, file, l)
      [] l.pos + 4 <= Len(buf) /\ EndsSubRecords(h) -> ElementClosed(buf, h.file, l)
      [] OTHER ->
           [file |-> mem_fseek(buf,
                         ParseSubRecord(buf, h.file, l.pos,
                             [ZeroElement EXCEPT !.kind = l.kind],
                             h.record_type, h.record_length, uninit).file,
                         Advance(l.pos, h.record_length)).file,
            loop |-> [l EXCEPT !.pos = Advance(l.pos, h.record_length)]]

\* the next iteration of loop l, whichever loop it is
LoopIteration(buf, file, l, uninit) ==
    CASE l.name = "units_search" ->
           UnitsSearchIteration(buf, file, l, mem_fread_gdsii_header(buf, file))
      [] l.name = "count_structures" ->
           CountStructuresIteration(buf, file, l, mem_fread_gdsii_header(buf, file))
      [] l.name = "scan_structures" ->
           ScanStructuresIteration(buf, file, l, mem_fread_gdsii_header(buf, file))
      [] l.name = "count_elements" ->
           CountElementsIteration(buf, file, l, mem_fread_gdsii_header(buf, file))
      [] l.name = "decode_elements" ->
           DecodeElementsIteration(buf, file, l, mem_fread_gdsii_header(buf, file))
      [] l.name = "sub_records" ->
           SubRecordIteration(buf, file, l, mem_fread_gdsii_header(buf, file), uninit)

\* the structure index as wasm_parse_library_structures leaves it
ScannedCache(buf) ==
    wasm_parse_library_structures(buf, EmptyCache(buf), mem_fopen(buf)).cache

LoopInit ==
    /\ input \in {[kind |-> "loop", sel |-> << >>, id |-> id] :
                    id \in {"short_after_libname", "short_bgnstr", "short_element", "short_subrecord",
                     "library", "empty", "tiny", "header_overrun", "no_units", "bgnstr_no_strname",
                     "bgnstr_no_strname_then_named", "xy_truncated", "element_no_endel",
                     "unknown_subrecords"}}
    /\ raw_data = LoopBuffer(input.id)
    /\ cache_ptr = NULL
    /\ cache = EmptyCache(<< >>)
    /\ mem_file = mem_fopen(raw_data)
    /\ last_call = Call("none", << >>, IntRet(0))
    /\ loop = NoLoop
    /\ bridge = NoBridge

\* an API function reaches one of its loops, with the values its variables
\* have in front of the loop
LoopStart ==
    /\ ~loop.running
    /\ \E s \in
          {[file |-> UnitsSearchStart(raw_data).file,
            loop |-> [NoLoop EXCEPT !.name = "units_search", !.running = TRUE,
                                    !.pos = UnitsSearchStart(raw_data).pos]] :
              x \in IF UnitsSearchStart(raw_data).ok THEN {0} ELSE {}}
          \cup
          {[file |-> mem_fseek(raw_data, mem_fopen(raw_data), 0).file,
            loop |-> [NoLoop EXCEPT !.name = "count_structures", !.running = TRUE]]}
          \cup
          {[file |-> mem_fseek(raw_data, mem_fopen(raw_data), 0).file,
            loop |-> [NoLoop EXCEPT !.name = "scan_structures", !.running = TRUE,
                                    !.count = c]] :
              c \in {CountStructures(raw_data, mem_fseek(raw_data, mem_fopen(raw_data), 0).file, 0, 0).count}
                    \ {0}}
          \cup
          {[file |-> mem_fseek(raw_data, mem_fopen(raw_data),
                               ScannedCache(raw_data).structures[i].file_offset).file,
            loop |-> [NoLoop EXCEPT !.name = "count_elements", !.running = TRUE,
                                    !.pos = ScannedCache(raw_data).structures[i].file_offset]] :
              i \in 1..ScannedCache(raw_data).structure_count}
          \cup
          {[file |-> mem_fseek(raw_data, mem_fopen(raw_data),
                               ScannedCache(raw_data).structures[i].file_offset).file,
            loop |-> [NoLoop EXCEPT !.name = "decode_elements", !.running = TRUE,
                                    !.pos = ScannedCache(raw_data).structures[i].file_offset,
                                    !.count =
                                       CountElements(raw_data,
                                          mem_fseek(raw_data, mem_fopen(raw_data),
                                             ScannedCache(raw_data).structures[i].file_offset).file,
                                          ScannedCache(raw_data).structures[i].file_offset,
                                          0, 0).count]] :
              i \in {j \in 1..ScannedCache(raw_data).structure_count :
                       CountElements(raw_data,
                          mem_fseek(raw_data, mem_fopen(raw_data),
                                    ScannedCache(raw_data).structures[j].file_offset).file,
                          ScannedCache(raw_data).structures[j].file_offset, 0, 0).count > 0}} :
          /\ mem_file' = s.file
          /\ loop' = s.loop
    /\ UNCHANGED <<input, raw_data, cache_ptr, cache, last_call, bridge>>

\* one iteration of the running loop, r its outcome
LoopIterated(name, r) ==
    /\ loop.running
    /\ loop.name = name
    /\ mem_file' = r.file
    /\ loop' = r.loop
    /\ UNCHANGED <<input, raw_data, cache_ptr, cache, last_call, bridge>>

UnitsSearchStep ==
    \E r \in {UnitsSearchIteration(raw_data, mem_file, loop,
                  mem_fread_gdsii_header(raw_data, mem_file))} :
        LoopIterated("units_search", r)

CountStructuresStep ==
    \E r \in {CountStructuresIteration(raw_data, mem_file, loop,
                  mem_fread_gdsii_header(raw_data, mem_file))} :
        LoopIterated("count_structures", r)

ScanStructuresStep ==
    \E r \in {ScanStructuresIteration(raw_data, mem_file, loop,
                  mem_fread_gdsii_header(raw_data, mem_file))} :
        LoopIterated("scan_structures", r)

CountElementsStep ==
    \E r \in {CountElementsIteration(raw_data, mem_file, loop,
                  mem_fread_gdsii_header(raw_data, mem_file))} :
        LoopIterated("count_elements", r)

DecodeElementsStep ==
    \E r \in {DecodeElementsIteration(raw_data, mem_file, loop,
                  mem_fread_gdsii_header(raw_data, mem_file))} :
        LoopIterated("decode_elements", r)

SubRecordStep ==
    \E uninit \in Uninit :
    \E r \in {SubRecordIteration(raw_data, mem_file, loop,
                  mem_fread_gdsii_header(raw_data, mem_file), uninit)} :
        LoopIterated("sub_records", r)

LoopNext ==
    \/ LoopStart
    \/ UnitsSearchStep
    \/ CountStructuresStep
    \/ ScanStructuresStep
    \/ CountElementsStep
    \/ DecodeElementsStep
    \/ SubRecordStep

LoopSpec == LoopInit /\ [][LoopNext]_vars

\* ------------------------------------------------------------------------
\* wasm-bridge.c : the handle table and the exported gds_* functions.  b is
\* the bridge's state: handles[], next_handle, handles_initialized,
\* last_error, and the heap that malloc and free manage.  A library object
\* holds the cache that wasm_create_library_cache built and its cursor, a
\* temporary buffer holds the doubles copied into it.
\* ------------------------------------------------------------------------

\* init_handles (45-53)
init_handles(b) ==
    IF b.handles_initialized # 0 THEN b
    ELSE [b EXCEPT !.handles = [h \in 0..(MaxHandles - 1) |-> [pointer |-> 0, type |-> 0, size |-> 0]],
                   !.next_handle = 1,
                   !.handles_initialized = 1]

\* set_last_error (116-123) for the literals the bridge passes
set_last_error(b, error) == [b EXCEPT !.last_error = error]

\* malloc: NULL, or the lowest address that holds no object
malloc(heap) ==
    {0} \cup (IF \E o \in DOMAIN heap : heap[o].kind = "free"
              THEN {CHOOSE o \in DOMAIN heap :
                       heap[o].kind = "free"
                         /\ \A q \in DOMAIN heap : heap[q].kind = "free" => o <= q}
              ELSE {})

\* free(ptr) and wasm_free_library_cache(cache): the object is gone
free(heap, ptr) == [heap EXCEPT ![ptr] = NoObject]

\* the slot that the i-th iteration of allocate_handle's loop tests (60-61)
HandleAt(next_handle, i) ==
    IF (next_handle + i) % MaxHandles = 0 THEN 1 ELSE (next_handle + i) % MaxHandles

\* 63-69: the slot handle is taken
HandleTaken(b, handle, ptr, type, size) ==
    [bridge |-> [b EXCEPT
        !.handles[handle] = [pointer |-> ptr, type |-> type, size |-> size],
        !.next_handle = IF (handle + 1) % MaxHandles = 0 THEN 1
                        ELSE (handle + 1) % MaxHandles],
     handle |-> handle]

\* the loop of allocate_handle (59-72) over the initialised table b
FindFreeSlot(b, ptr, type, size) ==
    IF \E i \in 0..(MaxHandles - 1) :
           b.handles[HandleAt(b.next_handle, i)].pointer = 0
    THEN HandleTaken(b,
             HandleAt(b.next_handle,
                 CHOOSE i \in 0..(MaxHandles - 1) :
                    /\ b.handles[HandleAt(b.next_handle, i)].pointer = 0
                    /\ \A j \in 0..(i - 1) :
                          b.handles[HandleAt(b.next_handle, j)].pointer # 0),
             ptr, type, size)
    ELSE [bridge |-> b, handle |-> INVALID_HANDLE]

\* allocate_handle (56-75)
allocate_handle(b, ptr, type, size) == FindFreeSlot(init_handles(b), ptr, type, size)

\* get_pointer (78-89)
get_pointer(b, handle, expected_type) ==
    IF handle <= 0 \/ handle >= MaxHandles THEN 0
    ELSE IF b.handles[handle].pointer = 0 \/ b.handles[handle].type # expected_type
    THEN 0
    ELSE b.handles[handle].pointer

\* free_handle (92-108)
free_handle(b, handle) ==
    IF handle <= 0 \/ handle >= MaxHandles THEN b
    ELSE [b EXCEPT
            !.heap = IF b.handles[handle].pointer # 0 /\ b.handles[handle].type = 2
                     THEN free(@, b.handles[handle].pointer) ELSE @,
            !.handles[handle] = [pointer |-> 0, type |-> 0, size |-> 0]]

\* the failure returns of gds_parse_from_memory
ParseFailed(b, error_code, error) ==
    [bridge |-> set_last_error(b, error), ret |-> 0, error_code |-> error_code]

\* 160-169: a is the outcome of allocate_handle for the cache at ptr
LibraryHandleAllocated(ptr, a) ==
    IF a.handle = INVALID_HANDLE
    THEN ParseFailed([a.bridge EXCEPT !.heap = free(@, ptr)], -4,
                     "Too many open libraries")
    ELSE [bridge |-> a.bridge, ret |-> a.handle, error_code |-> 0]

\* 152-169: parsed is the outcome of wasm_parse_library_structures
LibraryParsed(b, ptr, parsed) ==
    IF parsed.ret # 0
    THEN ParseFailed(b, -3, "Failed to parse library structures")
    ELSE LibraryHandleAllocated(ptr,
             allocate_handle(
                 [b EXCEPT !.heap[ptr] = [kind |-> "library", cache |-> parsed.cache,
                                          file |-> parsed.file, data |-> << >>]],
                 ptr, 1, 0))

\* 144-169: created is the outcome of wasm_create_library_cache, ptr the
\* address its malloc returned
LibraryCreated(buf, b, ptr, created) ==
    IF ptr = 0 \/ created.ret = NULL
    THEN ParseFailed(b, -2, "Failed to create library cache")
    ELSE LibraryParsed(b, ptr,
             wasm_parse_library_structures(buf, created.cache, created.file))

\* gds_parse_from_memory(data, size, &error_code) (134-169)
gds_parse_from_memory(buf, b, data_null, size, ptr) ==
    IF data_null \/ size <= 0
    THEN ParseFailed(b, -1, "Invalid parameters")
    ELSE LibraryCreated(buf, set_last_error(b, ""), ptr,
                        wasm_create_library_cache(buf, FALSE))

\* gds_free_library (176-182)
gds_free_library(b, library_handle) ==
    IF get_pointer(b, library_handle, 1) # 0
    THEN free_handle([b EXCEPT !.heap = free(@, get_pointer(b, library_handle, 1))],
                     library_handle)
    ELSE b

\* gds_free_temporary (445-447)
gds_free_temporary(b, handle) == free_handle(b, handle)

\* gds_get_structure_count (207-215)
gds_get_structure_count(b, library_handle) ==
    IF get_pointer(b, library_handle, 1) = 0
    THEN [bridge |-> set_last_error(b, "Invalid library handle"), ret |-> 0]
    ELSE [bridge |-> b,
          ret |-> b.heap[get_pointer(b, library_handle, 1)].cache.structure_count]

\* gds_get_element_array_columns (518-521): reads none of its arguments
gds_get_element_array_columns(b, library_handle, structure_index, element_index) ==
    [bridge |-> b, ret |-> 1]

\* the library object at ptr after an accessor left its cache as r has it
CacheAfter(b, ptr, r) ==
    [b EXCEPT !.heap[ptr].cache = r.cache, !.heap[ptr].file = r.file]

\* 430-438: a is the outcome of allocate_handle for the buffer at temp_buffer
TemporaryHandleAllocated(temp_buffer, a) ==
    IF a.handle = INVALID_HANDLE
    THEN [bridge |-> set_last_error([a.bridge EXCEPT !.heap = free(@, temp_buffer)],
                                    "Failed to allocate handle for temporary buffer"),
          ret |-> 0]
    ELSE [bridge |-> a.bridge, ret |-> a.handle]

\* 411-438: vertices and n are what wasm_get_element_polygon_vertices and
\* wasm_get_element_polygon_vertex_count returned, temp_buffer the address
\* that malloc returned
VerticesCopied(b, vertices, n, temp_buffer) ==
    IF n.val <= 0
    THEN [bridge |-> set_last_error(b, "Invalid vertex count"), ret |-> 0]
    ELSE IF temp_buffer = 0
    THEN [bridge |-> set_last_error(b, "Failed to allocate temporary buffer"), ret |-> 0]
    ELSE TemporaryHandleAllocated(temp_buffer,
             allocate_handle(
                 [b EXCEPT !.heap[temp_buffer] =
                     [kind |-> "temporary", cache |-> EmptyCache(<< >>),
                      file |-> mem_fopen(<< >>),
                      data |-> SubSeq(vertices.at, 1, 2 * n.val)]],
                 temp_buffer, 2, n.val * 2 * 8))

\* 405-438: v is the outcome of wasm_get_element_polygon_vertices on the
\* cache at ptr
VerticesFound(b, ptr, structure_index, element_index, polygon_index, temp_buffer, v) ==
    IF v.ret.null
    THEN [bridge |-> set_last_error(CacheAfter(b, ptr, v),
                                    "Failed to get polygon vertices"),
          ret |-> 0]
    ELSE VerticesCopied(CacheAfter(b, ptr, v), v.ret,
             AccessorTail("wasm_get_element_polygon_vertex_count",
                          [ret |-> 0, cache |-> v.cache, file |-> v.file],
                          structure_index, element_index, polygon_index).ret,
             temp_buffer)

\* gds_get_element_polygon_vertices (393-439); buf is the buffer the
\* library was opened on
gds_get_element_polygon_vertices(buf, b, library_handle, structure_index, element_index, polygon_index, temp_buffer, uninit) ==
    IF get_pointer(b, library_handle, 1) = 0
    THEN [bridge |-> set_last_error(b, "Invalid library handle"), ret |-> 0]
    ELSE IF ~StructureIndexValid(b.heap[get_pointer(b, library_handle, 1)].cache,
                                 structure_index)
    THEN [bridge |-> set_last_error(b, "Invalid structure index"), ret |-> 0]
    ELSE VerticesFound(b, get_pointer(b, library_handle, 1), structure_index,
             element_index, polygon_index, temp_buffer,
             AccessorTail("wasm_get_element_polygon_vertices",
                 EnsureParsed(buf, b.heap[get_pointer(b, library_handle, 1)].cache,
                              b.heap[get_pointer(b, library_handle, 1)].file,
                              structure_index, uninit),
                 structure_index, element_index, polygon_index))

BridgeInit ==
    /\ input \in {[kind |-> "extra", sel |-> << >>, id |-> id] :
                    id \in {"properties", "empty", "tiny"}}
    /\ raw_data = BufferOf(input)
    /\ cache_ptr = NULL
    /\ cache = EmptyCache(<< >>)
    /\ mem_file = mem_fopen(<< >>)
    /\ last_call = Call("none", << >>, IntRet(0))
    /\ loop = NoLoop
    /\ bridge = NoBridge

\* handle = gds_parse_from_memory(data, size, &error_code)
GdsParseFromMemory ==
    /\ \E data_null \in BOOLEAN, ptr \in malloc(bridge.heap) :
         \E r \in {gds_parse_from_memory(raw_data, bridge, data_null, Len(raw_data),
                                         ptr)} :
             /\ bridge' = r.bridge
             /\ last_call' = Call("gds_parse_from_memory",
                                  <<IF data_null THEN 0 ELSE 1, Len(raw_data)>>,
                                  [val |-> r.ret, error_code |-> r.error_code])
    /\ UNCHANGED <<input, raw_data, cache_ptr, cache, mem_file, loop>>

\* gds_free_library(library_handle); it returns nothing, the call record
\* keeps the cache pointer that it looked up and freed (0: none)
GdsFreeLibrary ==
    /\ \E library_handle \in (0..MaxHandles) :
         /\ bridge' = gds_free_library(bridge, library_handle)
         /\ last_call' = Call("gds_free_library", <<library_handle>>,
                              [val |-> get_pointer(bridge, library_handle, 1)])
    /\ UNCHANGED <<input, raw_data, cache_ptr, cache, mem_file, loop>>

\* gds_free_temporary(handle)
GdsFreeTemporary ==
    /\ \E handle \in (0..MaxHandles) :
         /\ bridge' = gds_free_temporary(bridge, handle)
         /\ last_call' = Call("gds_free_temporary", <<handle>>, [val |-> 0])
    /\ UNCHANGED <<input, raw_data, cache_ptr, cache, mem_file, loop>>

\* n = gds_get_structure_count(library_handle)
GdsGetStructureCount ==
    /\ \E library_handle \in (0..MaxHandles) :
         \E r \in {gds_get_structure_count(bridge, library_handle)} :
             /\ bridge' = r.bridge
             /\ last_call' = Call("gds_get_structure_count", <<library_handle>>,
                                  [val |-> r.ret])
    /\ UNCHANGED <<input, raw_data, cache_ptr, cache, mem_file, loop>>

\* n = gds_get_element_array_columns(library_handle, structure_index,
\* element_index)
GdsGetElementArrayColumns ==
    /\ \E library_handle \in (0..MaxHandles), structure_index \in {0},
          element_index \in {0} :
         \E r \in {gds_get_element_array_columns(bridge, library_handle,
                                                 structure_index, element_index)} :
             /\ bridge' = r.bridge
             /\ last_call' = Call("gds_get_element_array_columns",
                                  <<library_handle, structure_index, element_index>>,
                                  [val |-> r.ret])
    /\ UNCHANGED <<input, raw_data, cache_ptr, cache, mem_file, loop>>

\* handle = gds_get_element_polygon_vertices(library_handle, structure_index,
\* element_index, polygon_index)
GdsGetElementPolygonVertices ==
    /\ \E library_handle \in (0..MaxHandles), structure_index \in 0..1,
          element_index \in {0}, polygon_index \in 0..1,
          temp_buffer \in malloc(bridge.heap) :
         \E uninit \in (IF get_pointer(bridge, library_handle, 1) = 0 THEN {<<0, 0>>}
                      ELSE UninitFor(bridge.heap[get_pointer(bridge, library_handle,
                                                             1)].cache,
                                     {structure_index})) :
         \E r \in {gds_get_element_polygon_vertices(raw_data, bridge, library_handle,
                       structure_index, element_index, polygon_index, temp_buffer,
                       uninit)} :
             /\ bridge' = r.bridge
             /\ last_call' = Call("gds_get_element_polygon_vertices",
                                  <<library_handle, structure_index, element_index,
                                    polygon_index>>,
                                  [val |-> r.ret])
    /\ UNCHANGED <<input, raw_data, cache_ptr, cache, mem_file, loop>>

BridgeNext ==
    \/ GdsParseFromMemory
    \/ GdsFreeLibrary
    \/ GdsFreeTemporary
    \/ GdsGetStructureCount
    \/ GdsGetElementArrayColumns
    \/ GdsGetElementPolygonVertices

BridgeSpec == BridgeInit /\ [][BridgeNext]_vars

\* ------------------------------------------------------------------------
\* The parser and the polygon accessor when malloc may return NULL.
\* ------------------------------------------------------------------------

\* wasm_get_element_polygon_vertex_count (721-740) after the
\* parse-on-first-use step p.  "element->polygons[polygon_index]" (739): with
\* polygons NULL the read is through a null pointer and what it yields is
\* indeterminate
PolygonVertexCountTail(p, structure_index, element_index, polygon_index, uninit) ==
    IF p.ret # 0 THEN [ret |-> IntRet(-1), cache |-> p.cache, file |-> p.file]
    ELSE IF element_index < 0
            \/ element_index >= p.cache.structures[structure_index + 1].element_count
    THEN [ret |-> IntRet(-1), cache |-> p.cache, file |-> p.file]
    ELSE IF polygon_index < 0
            \/ polygon_index >= p.cache.structures[structure_index + 1]
                                   .elements[element_index + 1].polygon_count
    THEN [ret |-> IntRet(-1), cache |-> p.cache, file |-> p.file]
    ELSE [ret |-> IntRet(IF polygon_index + 1
                               <= Len(p.cache.structures[structure_index + 1]
                                         .elements[element_index + 1].polygons)
                         THEN p.cache.structures[structure_index + 1]
                                 .elements[element_index + 1]
                                 .polygons[polygon_index + 1].vertex_count
                         ELSE uninit[1]),
          cache |-> p.cache, file |-> p.file]

MallocInit ==
    /\ input \in {[kind |-> "library", sel |-> <<1, 2>>, id |-> ""]}
                  \cup {[kind |-> "extra", sel |-> << >>, id |-> id] :
                           id \in {"shapes", "xy_truncated", "empty_first"}}
    /\ raw_data = BufferOf(input)
    /\ cache_ptr = NULL
    /\ cache = EmptyCache(<< >>)
    /\ mem_file = mem_fopen(<< >>)
    /\ last_call = Call("none", << >>, IntRet(0))
    /\ loop = NoLoop
    /\ bridge = NoBridge

\* wasm_parse_structure_elements(cache, structure_index): the parse meets
\* indeterminate x_int / y_int, and each of its three mallocs succeeds or
\* fails
ParseStructureElementsMalloc ==
    /\ cache_ptr # NULL
    /\ \E structure_index \in (-1..MaxStructs) :
         \E r \in {wasm_parse_structure_elements(raw_data, cache, mem_file,
                                                 structure_index, uninit) :
                      uninit \in {u \o <<elements, polygons, vertices>> :
                                     u \in Uninit, elements \in BOOLEAN,
                                     polygons \in BOOLEAN, vertices \in BOOLEAN}} :
            /\ cache' = r.cache
            /\ mem_file' = r.file
            /\ last_call' = Call("wasm_parse_structure_elements",
                                 <<structure_index>>, IntRet(r.ret))
    /\ UNCHANGED <<input, raw_data, cache_ptr, loop, bridge>>

\* n = wasm_get_element_polygon_vertex_count(cache, structure_index,
\* element_index, polygon_index), every malloc of its parse free to fail
GetPolygonVertexCountMalloc ==
    /\ cache_ptr # NULL
    /\ \E structure_index \in (-1..MaxStructs) :
         /\ StructureIndexValid(cache, structure_index)
         /\ \E uninit \in {u \o <<elements, polygons, vertices>> :
                              u \in Uninit, elements \in BOOLEAN,
                              polygons \in BOOLEAN, vertices \in BOOLEAN} :
            \E p \in {EnsureParsed(raw_data, cache, mem_file, structure_index, uninit)} :
            \E element_index \in (-1..MaxIndex), polygon_index \in (-1..1) :
            \E r \in {PolygonVertexCountTail(p, structure_index, element_index,
                                             polygon_index, uninit)} :
               /\ cache' = r.cache
               /\ mem_file' = r.file
               /\ last_call' = Call("wasm_get_element_polygon_vertex_count",
                                    <<structure_index, element_index, polygon_index>>,
                                    r.ret)
    /\ UNCHANGED <<input, raw_data, cache_ptr, loop, bridge>>

MallocNext ==
    \/ Create
    \/ ParseLibraryStructures
    \/ ParseStructureElementsMalloc
    \/ GetPolygonVertexCountMalloc

MallocSpec == MallocInit /\ [][MallocNext]_vars

\* ------------------------------------------------------------------------
\* Properties
\* ------------------------------------------------------------------------

\* C1: once a structure is marked parsed, a further
\* wasm_parse_structure_elements call or accessor call naming that structure
\* changes neither the cache nor the cursor, the parse returns 0,
\* wasm_get_element_count returns the stored element_count, and a call
\* repeated with the same arguments returns the same value again.
C1_ParsedOnce ==
    [][\A i \in 0..(MaxStructs - 1) :
         (/\ cache_ptr = "cache" /\ cache_ptr' = "cache"
          /\ i < cache.structure_count
          /\ cache.structures[i + 1].is_fully_parsed = 1
          /\ last_call'.op \in Accessors \cup {"wasm_parse_structure_elements"}
          /\ last_call'.args[1] = i)
         => /\ cache' = cache
            /\ mem_file' = mem_file
            /\ (last_call'.op = "wasm_parse_structure_elements" => last_call'.ret = IntRet(0))
            /\ (last_call'.op = "wasm_get_element_count"
                  => last_call'.ret = IntRet(cache.structures[i + 1].element_count))
            /\ (last_call.op = last_call'.op /\ last_call.args = last_call'.args
                  => last_call'.ret = last_call.ret)]_vars

\* a parse call for structure 0 that found it parsed: the cursor still stands
\* where the later parse of structure 1 left it
C1_Witness ==
    /\ cache_ptr = "cache"
    /\ last_call.op = "wasm_parse_structure_elements"
    /\ last_call.args = <<0>>
    /\ last_call.ret = IntRet(0)
    /\ cache.structure_count >= 2
    /\ cache.structures[1].is_fully_parsed = 1
    /\ cache.structures[1].element_count = 3
    /\ cache.structures[2].is_fully_parsed = 1
    /\ mem_file.position > cache.structures[2].file_offset

\* C2: the structure scan leaves every structure unparsed with no elements;
\* a structure becomes parsed only by a parse or accessor call naming its own
\* index or by wasm_parse_all_data; a parse or accessor call naming one index
\* leaves every other structure's entry as it was.
C2_ScanDecodesNothing ==
    [][/\ (/\ last_call'.op = "wasm_parse_library_structures"
           /\ cache_ptr = "cache" /\ ~cache.structures_alloc)
          => \A i \in 1..cache'.structure_count :
               /\ cache'.structures[i].is_fully_parsed = 0
               /\ cache'.structures[i].element_count = 0
               /\ cache'.structures[i].elements = << >>
       /\ \A i \in 0..(MaxStructs - 1) :
            (/\ cache_ptr' = "cache"
             /\ i < cache'.structure_count
             /\ cache'.structures[i + 1].is_fully_parsed = 1
             /\ ~(/\ cache_ptr = "cache"
                  /\ i < cache.structure_count
                  /\ cache.structures[i + 1].is_fully_parsed = 1))
            => \/ last_call'.op = "wasm_parse_all_data"
               \/ /\ last_call'.op \in Accessors \cup {"wasm_parse_structure_elements"}
                  /\ last_call'.args[1] = i
       /\ \A i \in 0..(MaxStructs - 1) :
            (/\ cache_ptr = "cache" /\ cache_ptr' = "cache"
             /\ i < cache.structure_count
             /\ last_call'.op \in Accessors \cup {"wasm_parse_structure_elements"}
             /\ last_call'.args[1] # i)
            => cache'.structures[i + 1] = cache.structures[i + 1]]_vars

\* structure 1 was parsed by a call naming it; its neighbours, found by the
\* same scan, are still unparsed and empty
C2_Witness ==
    /\ cache_ptr = "cache"
    /\ last_call.op = "wasm_parse_structure_elements"
    /\ last_call.args = <<1>>
    /\ last_call.ret = IntRet(0)
    /\ cache.structure_count = 3
    /\ cache.structures[2].is_fully_parsed = 1
    /\ cache.structures[2].element_count = 2
    /\ cache.structures[1].is_fully_parsed = 0
    /\ cache.structures[1].element_count = 0
    /\ cache.structures[3].is_fully_parsed = 0
    /\ cache.structures[3].elements = << >>

\* C3: after wasm_parse_library_structures, structure_count is the number of
\* BGNSTR records of the buffer (records delimited by their declared lengths)
\* that are immediately followed by a STRNAME record, and structure i carries
\* the name of the i-th such pair.
C3_StructuresAreTheNamedPairs ==
    (cache_ptr = "cache" /\ last_call.op = "wasm_parse_library_structures")
      => LET Total(pos) == raw_data[pos + 1] * 256 + raw_data[pos + 2]
             Type(pos) == raw_data[pos + 3] * 256 + raw_data[pos + 4]
             Whole(pos) == /\ pos + 4 <= Len(raw_data)
                           /\ Total(pos) >= 4
                           /\ pos + Total(pos) <= Len(raw_data)
             RECURSIVE Pairs(_)
             Pairs(pos) ==
                 IF ~Whole(pos) THEN << >>
                 ELSE LET next == pos + Total(pos)
                      IN  IF Type(pos) = BGNSTR /\ Whole(next) /\ Type(next) = STRNAME
                          THEN <<SubSeq(raw_data, next + 5, next + Total(next))>>
                                 \o Pairs(next)
                          ELSE Pairs(next)
             CStr(b) == SubSeq(b, 1, CHOOSE k \in 0..Len(b) :
                                       /\ k = Len(b) \/ b[k + 1] = 0
                                       /\ \A j \in 1..k : b[j] # 0)
             names == Pairs(0)
         IN  /\ cache.structure_count = Len(names)
             /\ \A i \in 1..Len(names) :
                  i <= cache.structure_count
                    => CStr(cache.structures[i].name) = CStr(names[i])

\* C4: a Boundary, Path, Box or Node whose XY payload is 8k bytes (k >= 1)
\* is stored with exactly one polygon of exactly k vertices, and vertex i is
\* the pair of signed 32-bit values that was encoded at payload offsets 8i
\* and 8i+4, whatever their size or sign.
C4_XYDecodesSigned32 ==
    cache_ptr = "cache" =>
      \A i \in 1..cache.structure_count :
        \A t \in {Struct("A"), Struct("B"), Struct("C"), Struct("E"), Struct("S")} :
          (cache.structures[i].is_fully_parsed = 1 /\ cache.structures[i].name = t.name)
            => \A e \in 1..Len(t.elements) :
                 LET d == t.elements[e]
                     bytes == 8 * Len(d.points) + Len(d.stray)
                 IN  (/\ d.type \in {BOUNDARY, PATH, BOX, NODE}
                      /\ d.xy /\ bytes >= 8 /\ bytes % 8 = 0)
                     => /\ e <= cache.structures[i].element_count
                        /\ LET el == cache.structures[i].elements[e]
                           IN  /\ el.polygon_count = 1
                               /\ Len(el.polygons) = 1
                               /\ el.polygons[1].vertex_count = bytes \div 8
                               /\ Len(el.polygons[1].vertices) = 2 * (bytes \div 8)
                               /\ \A k \in 1..Len(d.points) :
                                    /\ el.polygons[1].vertices[2 * k - 1] = d.points[k][1]
                                    /\ el.polygons[1].vertices[2 * k] = d.points[k][2]

\* the Boundary encoded with 32 payload bytes is stored with 4 vertices,
\* among them (300000, 400000) and (2147483647, -2147483648)
C4_Witness ==
    /\ cache_ptr = "cache"
    /\ cache.structure_count >= 1
    /\ cache.structures[1].is_fully_parsed = 1
    /\ cache.structures[1].element_count = 3
    /\ cache.structures[1].elements[1].kind = "GDS_BOUNDARY"
    /\ cache.structures[1].elements[1].polygons[1].vertex_count = 4
    /\ cache.structures[1].elements[1].polygons[1].vertices
         = <<300000, 400000, -5, 70000, 2147483647, -2147483647 - 1, 0, 0>>

\* C5: wasm_create_library_cache returns NULL when the buffer is NULL or
\* empty, when its first three records, delimited by their declared lengths,
\* are not HEADER, BGNLIB, LIBNAME in that order, or when one of those
\* records runs past the end of the buffer.
C5_CreateRejectsBadPreamble ==
    last_call.op = "wasm_create_library_cache"
      => LET Total(pos) == raw_data[pos + 1] * 256 + raw_data[pos + 2]
             Type(pos) == raw_data[pos + 3] * 256 + raw_data[pos + 4]
             Is(pos, t) == /\ pos + 4 <= Len(raw_data)
                           /\ Total(pos) >= 4
                           /\ pos + Total(pos) <= Len(raw_data)
                           /\ Type(pos) = t
             good == /\ last_call.args[1] # 0
                     /\ Is(0, HEADER)
                     /\ Is(Total(0), BGNLIB)
                     /\ Is(Total(0) + Total(Total(0)), LIBNAME)
         IN  ~good => last_call.ret.null

\* C6: in the library [A, B, C] whose structure B holds malformed XY
\* records, parsing B fails and leaves B unparsed, parsing A or C succeeds,
\* and whenever A or C is parsed it holds the elements that were encoded for
\* it, in whatever order the parses were made.
C6_CorruptStructureIsolated ==
    (/\ input.kind = "library" /\ input.sel = <<1, 2, 3>>
     /\ cache_ptr = "cache" /\ cache.structure_count = 3)
      => /\ cache.structures[2].is_fully_parsed = 0
         /\ last_call.op = "wasm_parse_structure_elements"
              => /\ last_call.args = <<1>> => last_call.ret.val # 0
                 /\ last_call.args \in {<<0>>, <<2>>} => last_call.ret.val = 0
         /\ \A i \in {1, 3} :
              cache.structures[i].is_fully_parsed = 1
                => /\ cache.structures[i].element_count = Len(Templates[i].elements)
                   /\ \A e \in 1..Len(Templates[i].elements) :
                        /\ e <= Len(cache.structures[i].elements)
                        /\ cache.structures[i].elements[e].kind
                             = map_record_type_to_element_kind(Templates[i].elements[e].type)

\* C7: a structure holding an XY record whose payload length is zero or not
\* a multiple of 8, or that declares more bytes than the buffer holds, is
\* never marked parsed, and a parse call naming it returns an error.
C7_MalformedXYFailsParse ==
    cache_ptr = "cache" =>
      LET Total(pos) == raw_data[pos + 1] * 256 + raw_data[pos + 2]
          Type(pos) == raw_data[pos + 3] * 256 + raw_data[pos + 4]
          RECURSIVE BadXY(_)
          BadXY(pos) ==
              IF pos + 4 > Len(raw_data) \/ Total(pos) < 4 THEN FALSE
              ELSE IF Type(pos) = ENDSTR THEN FALSE
              ELSE IF /\ Type(pos) = XY
                      /\ \/ Total(pos) = 4
                         \/ (Total(pos) - 4) % 8 # 0
                         \/ pos + Total(pos) > Len(raw_data)
                   THEN TRUE
              ELSE IF pos + Total(pos) > Len(raw_data) THEN FALSE
              ELSE BadXY(pos + Total(pos))
      IN  \A i \in 1..cache.structure_count :
            BadXY(cache.structures[i].file_offset)
              => /\ cache.structures[i].is_fully_parsed = 0
                 /\ (/\ last_call.op = "wasm_parse_structure_elements"
                     /\ last_call.args = <<i - 1>>)
                      => last_call.ret.val # 0

\* C8: an accessor called with a structure, element or polygon index outside
\* [0, count) returns a dedicated error (a negative code, or NULL for a
\* pointer), never a value such as 0 or 1 that a valid element could hold.
C8_OutOfRangeIsAnError ==
    (cache_ptr = "cache" /\ last_call.op \in Accessors)
      => LET s == last_call.args[1]
             e == last_call.args[2]
             p == last_call.args[3]
             sOK == s >= 0 /\ s < cache.structure_count
             eOK == \/ last_call.op = "wasm_get_element_count"
                    \/ sOK /\ e >= 0 /\ e < cache.structures[s + 1].element_count
             pOK == \/ last_call.op # "wasm_get_element_polygon_vertices"
                    \/ /\ sOK /\ eOK /\ p >= 0
                       /\ p < cache.structures[s + 1].elements[e + 1].polygon_count
         IN  ~(sOK /\ eOK /\ pOK)
               => IF last_call.op = "wasm_get_element_polygon_vertices"
                  THEN last_call.ret.null
                  ELSE last_call.ret.val < 0

\* C9: for a buffer that opens with whole HEADER, BGNLIB and LIBNAME
\* records, wasm_create_library_cache returns a cache only if, before the
\* first BGNSTR or ENDLIB record, the buffer holds a UNITS record with a
\* 16-byte payload whose two Excess-64 values are both greater than 0.
C9_CreateRequiresValidUnits ==
    (last_call.op = "wasm_create_library_cache" /\ ~last_call.ret.null)
      => LET Total(pos) == raw_data[pos + 1] * 256 + raw_data[pos + 2]
             Type(pos) == raw_data[pos + 3] * 256 + raw_data[pos + 4]
             Whole(pos) == /\ pos + 4 <= Len(raw_data)
                           /\ Total(pos) >= 4
                           /\ pos + Total(pos) <= Len(raw_data)
             preamble == /\ Whole(0) /\ Type(0) = HEADER
                         /\ Whole(Total(0)) /\ Type(Total(0)) = BGNLIB
                         /\ Whole(Total(0) + Total(Total(0)))
                         /\ Type(Total(0) + Total(Total(0))) = LIBNAME
             RECURSIVE UnitsAt(_)
             UnitsAt(pos) ==
                 IF ~Whole(pos) \/ Type(pos) \in {BGNSTR, ENDLIB} THEN -1
                 ELSE IF Type(pos) = UNITS THEN pos
                 ELSE UnitsAt(pos + Total(pos))
             Positive(at) == /\ raw_data[at + 1] < 128
                             /\ \E j \in 2..8 : raw_data[at + j] # 0
             u == UnitsAt(0)
         IN  preamble => /\ u >= 0
                         /\ Total(u) = 20
                         /\ Positive(u + 4)
                         /\ Positive(u + 12)

\* C10: the bounds of a parsed element are the componentwise minimum and
\* maximum over its decoded XY points: all vertices of a Boundary, Path,
\* Box or Node, the position of a Text or SRef, and the origin, column point
\* and row point of an ARef.
C10_BoundsAreMinMax ==
    cache_ptr = "cache" =>
      \A i \in 1..cache.structure_count :
        \A e \in 1..Len(cache.structures[i].elements) :
          LET el == cache.structures[i].elements[e]
              pts == IF el.kind \in {"GDS_BOUNDARY", "GDS_PATH", "GDS_BOX", "GDS_NODE"}
                     THEN IF el.polygon_count = 1
                          THEN {<<el.polygons[1].vertices[2 * k - 1],
                                  el.polygons[1].vertices[2 * k]>> :
                                    k \in 1..el.polygons[1].vertex_count}
                          ELSE {}
                     ELSE IF el.kind = "GDS_TEXT"
                     THEN {<<el.text_data.x, el.text_data.y>>}
                     ELSE IF el.kind = "GDS_SREF"
                     THEN {<<el.reference_data.x, el.reference_data.y>>}
                     ELSE {<<el.reference_data.x, el.reference_data.y>>,
                           <<el.reference_data.corners[1], el.reference_data.corners[2]>>,
                           <<el.reference_data.corners[3], el.reference_data.corners[4]>>}
          IN  pts # {}
                => /\ \E q \in pts : q[1] = el.bounds[1]
                   /\ \E q \in pts : q[2] = el.bounds[2]
                   /\ \E q \in pts : q[1] = el.bounds[3]
                   /\ \E q \in pts : q[2] = el.bounds[4]
                   /\ \A q \in pts : /\ el.bounds[1] <= q[1] /\ q[1] <= el.bounds[3]
                                     /\ el.bounds[2] <= q[2] /\ q[2] <= el.bounds[4]

\* the ARef with origin (0,0), column point (30,0) and row point (0,20) is
\* stored with bounds [0,0]-[30,20], next to a Boundary whose bounds span
\* the whole signed 32-bit range in one coordinate
C10_Witness ==
    /\ cache_ptr = "cache"
    /\ cache.structure_count = 3
    /\ cache.structures[3].is_fully_parsed = 1
    /\ cache.structures[3].elements[1].kind = "GDS_AREF"
    /\ cache.structures[3].elements[1].reference_data.corners = <<30, 0, 0, 20, 0, 0>>
    /\ cache.structures[3].elements[1].bounds = <<0, 0, 30, 20>>
    /\ cache.structures[1].is_fully_parsed = 1
    /\ cache.structures[1].elements[1].bounds
         = <<-5, -2147483647 - 1, 2147483647, 400000>>

\* C11: on an open cursor with at least 4 bytes left, whose next 4 bytes
\* hold the big-endian total length L >= 4 and the record type T,
\* mem_fread_gdsii_header returns 1, reports T and L - 4, and moves the cursor
\* by exactly 4 bytes, to the start of the payload, whatever L is; the flags
\* stay as they were.
C11_HeaderReadsTypeAndLength ==
    [][LET p == mem_file.position
           L == raw_data[p + 1] * 256 + raw_data[p + 2]
           T == raw_data[p + 3] * 256 + raw_data[p + 4]
       IN  (/\ last_call'.op = "mem_fread_gdsii_header"
            /\ mem_file.is_closed = 0
            /\ p + 4 <= Len(raw_data)
            /\ L >= 4)
           => /\ last_call'.ret = [ret |-> 1, record_type |-> T, record_length |-> L - 4]
              /\ mem_file' = [mem_file EXCEPT !.position = p + 4]]_vars

\* the header of the unit test: 00 0C 02 06 read as LIBNAME with 8 payload
\* bytes, the cursor left at 4 although the payload is not in the buffer
C11_Witness ==
    /\ input.id = "libname_header"
    /\ last_call = Call("mem_fread_gdsii_header", <<0>>,
                        [ret |-> 1, record_type |-> LIBNAME, record_length |-> 8])
    /\ mem_file.position = 4
    /\ mem_file.eof_flag = 0

\* C12: on an open cursor mem_fread_gdsii_header returns 0 when fewer than 4
\* bytes are left and when the total length it read is below 4, and hands
\* out no payload length then.
C12_HeaderRejectsShortLength ==
    [][LET p == mem_file.position
       IN  (/\ last_call'.op = "mem_fread_gdsii_header"
            /\ mem_file.is_closed = 0
            /\ \/ p + 4 > Len(raw_data)
               \/ raw_data[p + 1] * 256 + raw_data[p + 2] < 4)
           => /\ last_call'.ret.ret = 0
              /\ last_call'.ret.record_length = 0]_vars

\* C13: as claimed, every read of n bytes (mem_fread of size * count bytes,
\* mem_fread_be16 of 2, mem_fread_be32 of 4) on an open cursor with fewer
\* than n bytes left returns 0 and delivers nothing.
C13_ShortReadFails ==
    [][LET left == Len(raw_data) - mem_file.position
       IN  /\ (/\ last_call'.op = "mem_fread"
               /\ mem_file.is_closed = 0
               /\ left < last_call'.args[2] * last_call'.args[3])
              => /\ last_call'.ret.ret = 0
                 /\ last_call'.ret.bytes = << >>
           /\ (/\ last_call'.op = "mem_fread_be16"
               /\ mem_file.is_closed = 0
               /\ left < 2)
              => last_call'.ret.ret = 0
           /\ (/\ last_call'.op = "mem_fread_be32"
               /\ mem_file.is_closed = 0
               /\ left < 4)
              => last_call'.ret.ret = 0]_vars

\* C13 as amended: with fewer bytes left than asked for, mem_fread_be16 and
\* mem_fread_be32 return 0, while mem_fread delivers the bytes that are left,
\* returns the number of whole elements among them and sets eof_flag; all
\* three leave the cursor at the end of the buffer.
C13_ShortReadIsPartial ==
    [][LET left == Len(raw_data) - mem_file.position
       IN  /\ (/\ last_call'.op = "mem_fread"
               /\ mem_file.is_closed = 0
               /\ left < last_call'.args[2] * last_call'.args[3])
              => /\ last_call'.ret.ret = left \div last_call'.args[2]
                 /\ last_call'.ret.ret < last_call'.args[3]
                 /\ last_call'.ret.bytes
                      = SubSeq(raw_data, mem_file.position + 1, Len(raw_data))
                 /\ mem_file' = [mem_file EXCEPT !.position = Len(raw_data),
                                                 !.eof_flag = 1]
           /\ (/\ last_call'.op \in {"mem_fread_be16", "mem_fread_be32"}
               /\ mem_file.is_closed = 0
               /\ left < (IF last_call'.op = "mem_fread_be16" THEN 2 ELSE 4))
              => /\ last_call'.ret.ret = 0
                 /\ mem_file' = [mem_file EXCEPT !.position = Len(raw_data),
                                                 !.eof_flag = 1]]_vars

\* the partial read of the unit test (test-memory-file.c:159-162): 4 bytes
\* asked for with 3 left, 3 delivered
C13_Witness ==
    /\ input.id = "small"
    /\ last_call = Call("mem_fread", <<0, 1, 4>>, [ret |-> 3, bytes |-> <<1, 2, 3>>])
    /\ mem_file.position = 3
    /\ mem_file.eof_flag = 1

\* C14: on an open cursor, mem_fseek from any of the three origins to a
\* target outside [0, size] returns -1, sets error_flag and keeps the
\* position; to a target inside [0, size], size included, it returns 0, sets
\* the position to the target and clears eof_flag.
C14_SeekChecksTarget ==
    [][LET offset == last_call'.args[2]
           whence == last_call'.args[3]
           target == CASE whence = "SEEK_SET" -> offset
                       [] whence = "SEEK_CUR" -> mem_file.position + offset
                       [] whence = "SEEK_END" -> Len(raw_data) + offset
       IN  (/\ last_call'.op = "mem_fseek"
            /\ mem_file.is_closed = 0
            /\ whence \in {"SEEK_SET", "SEEK_CUR", "SEEK_END"})
           => IF target < 0 \/ target > Len(raw_data)
              THEN /\ last_call'.ret.ret = -1
                   /\ mem_file' = [mem_file EXCEPT !.error_flag = 1]
              ELSE /\ last_call'.ret.ret = 0
                   /\ mem_file' = [mem_file EXCEPT !.position = target,
                                                   !.eof_flag = 0]]_vars

\* a seek to the very end of the buffer that succeeded after an earlier seek
\* had failed: the position is size, eof_flag is clear, error_flag still set
C14_Witness ==
    /\ last_call.op = "mem_fseek"
    /\ last_call.args[2] = 0 /\ last_call.args[3] = "SEEK_END"
    /\ last_call.ret.ret = 0
    /\ last_call.args[1] < Len(raw_data)
    /\ mem_file.position = Len(raw_data)
    /\ mem_file.eof_flag = 0
    /\ mem_file.error_flag = 1

\* C15: for a structure that is BGNSTR, STRNAME, ENDSTR and nothing else,
\* wasm_parse_structure_elements returns 0 and wasm_get_element_count returns
\* 0, and after either call the structure is marked parsed with no elements.
C15_EmptyStructureParses ==
    \A i \in 0..(MaxStructs - 1) :
      LET o == cache.structures[i + 1].file_offset
          TypeAt(p) == raw_data[p + 3] * 256 + raw_data[p + 4]
          LengthAt(p) == raw_data[p + 1] * 256 + raw_data[p + 2]
      IN  (/\ cache_ptr = "cache"
           /\ i < cache.structure_count
           /\ TypeAt(o) = BGNSTR
           /\ TypeAt(o + LengthAt(o)) = STRNAME
           /\ TypeAt(o + LengthAt(o) + LengthAt(o + LengthAt(o))) = ENDSTR
           /\ \/ last_call.op = "wasm_parse_structure_elements" /\ last_call.args = <<i>>
              \/ last_call.op = "wasm_get_element_count" /\ last_call.args[1] = i)
          => /\ last_call.ret = IntRet(0)
             /\ cache.structures[i + 1].is_fully_parsed = 1
             /\ cache.structures[i + 1].element_count = 0
             /\ cache.structures[i + 1].elements = << >>

\* the element count of the empty structure that stands in front of a
\* structure with three elements, asked for before anything was parsed
C15_Witness ==
    /\ input.id = "empty_first"
    /\ cache_ptr = "cache"
    /\ cache.structure_count = 2
    /\ last_call.op = "wasm_get_element_count"
    /\ last_call.args[1] = 0
    /\ last_call.ret = IntRet(0)
    /\ cache.structures[1].is_fully_parsed = 1
    /\ cache.structures[2].is_fully_parsed = 0

\* C16: as claimed, for a buffer of HEADER, BGNLIB, LIBNAME, valid UNITS and
\* ENDLIB, wasm_create_library_cache hands out a cache whose name is the
\* LIBNAME payload up to its first NUL, and the structure count is 0 before
\* and after wasm_parse_library_structures, which returns 0.
C16_MinimalLibrary ==
    input.id \in MinimalIds
    => /\ (last_call.op = "wasm_create_library_cache" /\ last_call.args[1] = 1)
          => cache_ptr = "cache"
       /\ cache_ptr = "cache"
          => /\ CString(cache.name) = CString(MinimalName(input.id))
             /\ cache.structure_count = 0
       /\ (last_call.op = "wasm_parse_library_structures" /\ cache_ptr = "cache")
          => last_call.ret = IntRet(0)

\* C16 as amended: the name is the first 255 bytes of the LIBNAME payload up
\* to their first NUL; the rest as claimed.
C16_MinimalLibraryCappedName ==
    input.id \in MinimalIds
    => /\ (last_call.op = "wasm_create_library_cache" /\ last_call.args[1] = 1)
          => cache_ptr = "cache"
       /\ cache_ptr = "cache"
          => /\ CString(cache.name)
                  = CString(SubSeq(MinimalName(input.id), 1,
                                   Min(Len(MinimalName(input.id)),
                                       MAX_STRUCTURE_NAME_LEN - 1)))
             /\ cache.structure_count = 0
       /\ (last_call.op = "wasm_parse_library_structures" /\ cache_ptr = "cache")
          => last_call.ret = IntRet(0)

\* the structure scan has run over the minimal library with the padded name
\* X Y NUL Z NUL NUL, whose name reads XY
C16_Witness ==
    /\ input.id = "minimal_padded"
    /\ cache_ptr = "cache"
    /\ last_call.op = "wasm_parse_library_structures"
    /\ last_call.ret = IntRet(0)
    /\ cache.name = <<88, 89, 0, 90, 0, 0>>
    /\ CString(cache.name) = <<88, 89>>
    /\ cache.structure_count = 0

\* C17: as claimed, a parsed element holds the values of its kind-specific
\* sub-records; checked on the ARef of structure C, whose COLROW payload is
\* (3, 2): once the structure is parsed the element has 3 columns and 2 rows,
\* and wasm_get_element_array_columns returns 3.
C17_ARefHoldsColRow ==
    (/\ input.kind = "library"
     /\ Len(input.sel) = 3
     /\ cache_ptr = "cache"
     /\ cache.structure_count = 3
     /\ cache.structures[3].is_fully_parsed = 1
     /\ cache.structures[3].element_count = 2
     /\ cache.structures[3].elements[1].kind = "GDS_AREF")
    => /\ cache.structures[3].elements[1].reference_data.ncol = 3
       /\ cache.structures[3].elements[1].reference_data.nrow = 2
       /\ (last_call.op = "wasm_get_element_array_columns"
           /\ last_call.args[1] = 2 /\ last_call.args[2] = 0)
          => last_call.ret = IntRet(3)

\* C18: as claimed, every PROPATTR / PROPVALUE pair of an element is appended
\* to its property list; checked on the Boundary that carries two pairs:
\* once its structure is parsed the element holds 2 properties and
\* wasm_get_element_property_count returns 2.
C18_PropertiesAreCounted ==
    (/\ input.id = "properties"
     /\ cache_ptr = "cache"
     /\ cache.structure_count = 1
     /\ cache.structures[1].is_fully_parsed = 1
     /\ cache.structures[1].element_count = 1)
    => /\ cache.structures[1].elements[1].property_count = 2
       /\ (last_call.op = "wasm_get_element_property_count"
           /\ last_call.args[1] = 0 /\ last_call.args[2] = 0)
          => last_call.ret = IntRet(2)

\* C20: as claimed, for a valid element of a parsed structure
\* wasm_get_element_data_type returns the value of the element's DATATYPE
\* record (0 when there is none).
C20_DataTypeOfValidElement ==
    (/\ last_call.op = "wasm_get_element_data_type"
     /\ cache_ptr = "cache"
     /\ last_call.args[1] >= 0 /\ last_call.args[1] < cache.structure_count
     /\ cache.structures[last_call.args[1] + 1].is_fully_parsed = 1
     /\ last_call.args[2] >= 0
     /\ last_call.args[2] < cache.structures[last_call.args[1] + 1].element_count)
    => last_call.ret
         = IntRet(cache.structures[last_call.args[1] + 1]
                       .elements[last_call.args[2] + 1].dtype)

\* C19: unknown sub-records of well-formed length inside an element never
\* abort the parse and leave no trace: once the structure scan has found
\* the structure, parsing it returns 0,
\* and its elements are, field by field, those decoded from the same stream
\* without the unknown records (layer 2, data type 7, the four XY points).
C19_UnknownSubRecordsSkipped ==
    (input.id = "unknown_subrecords" /\ cache_ptr = "cache")
    => LET twin == ExtraBuffer("properties")
           c == wasm_create_library_cache(twin, FALSE)
           l == wasm_parse_library_structures(twin, c.cache, c.file)
           e == wasm_parse_structure_elements(twin, l.cache, l.file, 0, <<0, 0>>)
       IN  /\ (/\ cache.structure_count = 1
               /\ \/ last_call.op = "wasm_parse_structure_elements"
                     /\ last_call.args = <<0>>
                  \/ last_call.op = "wasm_parse_all_data")
              => last_call.ret = IntRet(0)
           /\ (cache.structure_count = 1 /\ cache.structures[1].is_fully_parsed = 1)
              => /\ cache.structures[1].element_count = 1
                 /\ cache.structures[1].elements = e.cache.structures[1].elements
                 /\ cache.structures[1].elements[1].kind = "GDS_BOUNDARY"
                 /\ cache.structures[1].elements[1].layer = 2
                 /\ cache.structures[1].elements[1].dtype = 7
                 /\ cache.structures[1].elements[1].polygon_count = 1
                 /\ cache.structures[1].elements[1].polygons[1].vertices
                      = <<0, 0, 4, 0, 4, 4, 0, 0>>

\* the structure with the unknown sub-records has been parsed
C19_Witness ==
    /\ input.id = "unknown_subrecords"
    /\ cache_ptr = "cache"
    /\ last_call.op = "wasm_parse_structure_elements"
    /\ last_call.args = <<0>>
    /\ last_call.ret = IntRet(0)
    /\ cache.structures[1].is_fully_parsed = 1
    /\ cache.structures[1].elements[1].layer = 2
    /\ cache.structures[1].elements[1].polygons[1].vertex_count = 4

\* C21: as claimed, a cache that wasm_create_library_cache handed out holds
\* in its version field the 16-bit big-endian value of the HEADER payload
\* (bytes 4 and 5 of the buffer; 3 in every stream the model builds).
C21_VersionIsHeaderPayload ==
    cache_ptr = "cache" => cache.version = raw_data[5] * 256 + raw_data[6]

\* C22: as claimed, wasm_parse_library_structures called with a NULL cache
\* returns a non-zero error code.
C22_NullCacheIsAnError ==
    (last_call.op = "wasm_parse_library_structures" /\ cache_ptr = NULL)
    => last_call.ret.val # 0

\* C23: as claimed, decoding a structure uses only the records between its
\* BGNSTR and its ENDSTR; checked on structure X, whose only element is a
\* Boundary with LAYER 1 and no ENDEL: once X is parsed its element has
\* layer 1, data type 0 and no vertices, whatever structure Y holds.
C23_DecodingStaysInsideStructure ==
    (/\ input.id = "element_no_endel"
     /\ cache_ptr = "cache"
     /\ cache.structure_count = 2
     /\ cache.structures[1].is_fully_parsed = 1)
    => /\ cache.structures[1].element_count = 1
       /\ cache.structures[1].elements[1].layer = 1
       /\ cache.structures[1].elements[1].dtype = 0
       /\ cache.structures[1].elements[1].polygon_count = 0

\* C24: once the structure scan has filled the index, every indexed
\* structure's file_offset lies inside the buffer and is the offset of the
\* header of a BGNSTR record; the record after it is the STRNAME whose
\* payload (at most 255 bytes of it) is the structure's name; and the
\* offsets are strictly increasing in the index.
C24_FileOffsetsPointAtBgnstr ==
    cache_ptr = "cache"
    => \A i \in 1..cache.structure_count :
         LET o == cache.structures[i].file_offset
             TypeAt(p) == raw_data[p + 3] * 256 + raw_data[p + 4]
             LengthAt(p) == raw_data[p + 1] * 256 + raw_data[p + 2]
             q == o + LengthAt(o)
         IN  /\ o >= 0 /\ o + 4 <= Len(raw_data)
             /\ TypeAt(o) = BGNSTR
             /\ q + 4 <= Len(raw_data)
             /\ TypeAt(q) = STRNAME
             /\ q + LengthAt(q) <= Len(raw_data)
             /\ cache.structures[i].name
                  = SubSeq(raw_data, q + 5,
                           q + 4 + Min(LengthAt(q) - 4, MAX_STRUCTURE_NAME_LEN - 1))
             /\ i > 1 => cache.structures[i - 1].file_offset < o

\* C25: every record-scanning loop terminates on every buffer: the next
\* iteration of a running loop either ends the loop or moves pos forward by
\* at least 4 bytes, and an iteration entered with pos + 4 beyond the buffer
\* ends the loop, the sub-record loop by handing over to the second pass
\* over the elements that contains it.  A loop over a buffer of n bytes so
\* takes at most n / 4 + 2 iterations.
C25_LoopsTerminate ==
    loop.running
    => \A uninit \in Uninit :
         LET r == LoopIteration(raw_data, mem_file, loop, uninit)
         IN  \/ ~r.loop.running
             \/ /\ r.loop.pos >= loop.pos + 4
                /\ \/ loop.pos + 4 <= Len(raw_data)
                   \/ loop.name = "sub_records" /\ r.loop.name = "decode_elements"

\* the second pass over the elements has stopped behind an element-opening
\* record of declared total length 1: pos is past the end of the buffer
C25_Witness ==
    /\ input.id = "short_element"
    /\ loop.name = "decode_elements"
    /\ ~loop.running
    /\ loop.current = 2
    /\ loop.pos > Len(raw_data)


\* C26: after any sequence of mem_fread, mem_fread_be16, mem_fread_be32,
\* mem_fread_gdsii_header and mem_fseek calls, succeeding or failing, the
\* position stays within 0..size, the bytes a read consumed are the bytes
\* of the buffer between the position before and the position after the
\* call (so none lies outside [0, size)), and the buffer is the one the
\* caller passed to mem_fopen, unmodified.
C26_CursorStaysInsideBuffer ==
    /\ raw_data = FileBuffer(input.id)
    /\ mem_file.position >= 0
    /\ mem_file.position <= Len(raw_data)
    /\ last_call.op = "mem_fread"
       => /\ last_call.args[1] + Len(last_call.ret.bytes) = mem_file.position
          /\ last_call.ret.bytes
                = SubSeq(raw_data, last_call.args[1] + 1, mem_file.position)
    /\ last_call.op \in {"mem_fread_be16", "mem_fread_be32",
                         "mem_fread_gdsii_header"}
       => /\ last_call.args[1] >= 0
          /\ last_call.args[1] <= mem_file.position
          /\ mem_file.position - last_call.args[1] <= 4

\* a read of five bytes asked two bytes before the end of the buffer, after
\* a seek had been refused: two bytes arrive, the position is size
C26_Witness ==
    /\ last_call.op = "mem_fread"
    /\ last_call.args[2] * last_call.args[3] = 5
    /\ last_call.args[1] = Len(raw_data) - 2
    /\ Len(last_call.ret.bytes) = 2
    /\ mem_file.position = Len(raw_data)
    /\ mem_file.error_flag = 1
    /\ mem_file.is_closed = 0


\* C27: lazy parsing is transparent: the value wasm_get_element_property_count
\* returns for a structure of the library and an element index is the value
\* it returns for the same indices once wasm_get_element_count has been
\* called on that structure, whatever was called before.
C27_PropertyCountIgnoresHistory ==
    (/\ last_call.op = "wasm_get_element_property_count"
     /\ cache_ptr # NULL
     /\ StructureIndexValid(cache, last_call.args[1]))
    => \A uninit \in Uninit :
         last_call.ret.val
           = wasm_get_element_property_count(
                 cache_ptr,
                 EnsureParsed(raw_data, cache, mem_file, last_call.args[1], uninit).cache,
                 last_call.args[1], last_call.args[2])


\* C28: gds_free_temporary called with the handle of an open library leaves
\* that library open: the handle still looks up the same cache afterwards.
C28_FreeTemporaryKeepsLibraryOpen ==
    [][(/\ last_call'.op = "gds_free_temporary"
        /\ get_pointer(bridge, last_call'.args[1], 1) # 0)
       => get_pointer(bridge', last_call'.args[1], 1)
            = get_pointer(bridge, last_call'.args[1], 1)]_vars

\* C29: handle 0 is never issued; a handle is issued only while its slot is
\* free; a handle looks up an object only under the type of the object it
\* was issued for; and the query made on a handle right after
\* gds_free_library freed it reports "Invalid library handle".
C29_HandleIsValidWhileLive ==
    [][/\ bridge'.handles[0].pointer = 0
       /\ (/\ last_call'.op \in {"gds_parse_from_memory",
                                  "gds_get_element_polygon_vertices"}
           /\ last_call'.ret.val # 0)
          => /\ last_call'.ret.val \in 1..(MaxHandles - 1)
             /\ bridge.handles[last_call'.ret.val].pointer = 0
             /\ bridge'.handles[last_call'.ret.val].pointer # 0
       /\ \A h \in (0..MaxHandles) :
             /\ get_pointer(bridge', h, 1) # 0
                => bridge'.heap[get_pointer(bridge', h, 1)].kind = "library"
             /\ get_pointer(bridge', h, 2) # 0
                => bridge'.heap[get_pointer(bridge', h, 2)].kind = "temporary"
             /\ get_pointer(bridge', h, 1) = 0 \/ get_pointer(bridge', h, 2) = 0
       /\ (/\ last_call.op = "gds_free_library"
           /\ last_call.ret.val # 0
           /\ last_call'.op \in {"gds_get_structure_count",
                                  "gds_get_element_array_columns",
                                  "gds_get_element_polygon_vertices"}
           /\ last_call'.args[1] = last_call.args[1])
          => /\ last_call'.ret.val = 0
             /\ bridge'.last_error = "Invalid library handle"]_vars


\* C30: after any sequence of parse and accessor calls, also when a malloc
\* fails, every structure has 0 <= element_count <= element_capacity with
\* that many elements allocated, and every element has polygon_count 0 or
\* 1 and, when it is 1, a polygon array of one polygon whose vertex array is
\* not NULL, so that no accessor index that passes the checks reads outside
\* an allocation.
C30_ArraysCoverTheirCounts ==
    cache_ptr # NULL
    => \A s \in 1..cache.structure_count :
         /\ 0 <= cache.structures[s].element_count
         /\ cache.structures[s].element_count <= cache.structures[s].element_capacity
         /\ cache.structures[s].element_count <= Len(cache.structures[s].elements)
         /\ \A e \in 1..cache.structures[s].element_count :
               /\ cache.structures[s].elements[e].polygon_count \in {0, 1}
               /\ cache.structures[s].elements[e].polygon_count = 1
                  => /\ Len(cache.structures[s].elements[e].polygons) = 1
                     /\ cache.structures[s].elements[e].polygons[1].vertices # << >>

====
